---- MODULE Spec2Model ----
(***************************************************************************)
(* Model of the build-to-export streaming pipeline of the build daemon:    *)
(* Backend.Build (daemon/build.go) with its three goroutines (producer     *)
(* task, bridge-reader task, errgroup waiter), the supervisor select, the  *)
(* PipeWrapper of exporter/common.go and the named pipe (FIFO) that the    *)
(* producer and the bridge-reader share; and of image.ResolveName          *)
(* (image/image.go), the staged resolution of an image name.               *)
(***************************************************************************)
EXTENDS Integers, Sequences, FiniteSets, TLC

\* ------------------------------------------------------------------ bounds
\* number of archive bytes the builder may write into the pipe
MaxWrite == 3
\* capacity of the kernel pipe buffer, in bytes
PipeCap == 2
\* size of the bridge-reader's chunk buffer (constant.BufferSize), scaled
BufferSize == 2
\* number of tokens of an image name after its transport prefix
MaxBodyLen == 3
\* number of configured unqualified-search registries
MaxRegs == 2

\* ------------------------------------------------------------- error values
NoErr == "nil"
BuildErr == "disk full"
SendErr == "send error"
ReadErr == "read error"
OpenErr == "open error"
NewBuilderErr == "new builder error"
EOF == "EOF"
\* the image id builder.Build returns on success
BuiltID == "img1"
\* the bytes of berr.Error() that the producer writes into the pipe
ErrText == <<0>>

VARIABLES
    hasPipe,        \* builder.OutputPipeWrapper() != nil
    Done,           \* PipeWrapper.Done
    sentAtClose,    \* data chunks already sent when PipeWrapper.Close ran (-1: not yet)
    fifoBuf,        \* bytes in the kernel buffer of the named pipe
    readers,        \* open read ends of the pipe
    writers,        \* open write ends of the pipe
    rCounter,       \* number of opens for reading so far (fifo r_counter)
    wCounter,       \* number of opens for writing so far (fifo w_counter)
    pipePath,       \* what exists at PipeWrapper.PipeFile: the "fifo", nothing
                    \* ("absent") or a regular "file"
    fileBuf,        \* bytes of the regular file at PipeFile the reader has not read
    pdOnFile,       \* the descriptor of ioutil.WriteFile is that regular file
    rdOnFile,       \* the descriptor of the bridge-reader is that regular file
    bpc,            \* builder.Build: position of the exporter inside it
    written,        \* archive bytes the builder wrote so far
    bSavedR,        \* rCounter seen by the builder when its open blocked
    pdPc,           \* producer task position
    berr,           \* berr of the producer task
    imageID,        \* imageID shared by producer and supervisor
    pdSavedR,       \* rCounter seen by WriteFile when its open blocked
    wfRes,          \* outcome of ioutil.WriteFile: "none", "ok", "epipe"
    rdPc,           \* bridge-reader task position
    rdSavedW,       \* wCounter seen by the reader when its open blocked
    rdChunk,        \* buf[0:length] of the last reader.Read
    rerr,           \* rerr of the last reader.Read
    rdRet,          \* value the bridge-reader task returns
    rdFailedDuringBuild, \* the bridge-reader returned an error while builder.Build ran
    egErr,          \* first error recorded by the errgroup
    egFirst,        \* the task whose error the errgroup recorded first
    errChan,        \* buffered channel errChan (capacity 1)
    errChanClosed,  \* close(errChan) happened
    wtPc,           \* goroutine "errChan <- eg.Wait()"
    supPc,          \* Backend.Build itself (supervisor)
    result,         \* value returned by Backend.Build
    via,            \* return path taken by Backend.Build
    sessionDeleted, \* deferred CleanResources/deleteBuilder/deleteStatus ran
    cleaned,        \* runs of the deferred CleanResources/deleteBuilder/deleteStatus
    wgAdds,         \* b.wg.Add(1) calls
    wgDones,        \* b.wg.Done() calls
    ctxDone,        \* stream.Context() is cancelled
    sent,           \* messages passed to stream.Send that succeeded
    rnPc,           \* ResolveName: position inside the call
    name,           \* ResolveName: argument name, a sequence of tokens
    store,          \* ResolveName: images the local store holds
    sc,             \* ResolveName: registries configuration behind sc
    candidates,     \* ResolveName: first return value
    transport,      \* ResolveName: second return value
    resolveErr,     \* ResolveName: third return value
    consulted,      \* ResolveName: the stages the call has entered, in order
    firstCall,      \* ResolveName: what an earlier call with the same inputs returned
    pgPc,           \* PullAndGetImageInfo: position inside the call
    manifestIndex,  \* PullAndGetImageInfo: opt.ManifestIndex
    idx,            \* PullAndGetImageInfo: position of strImage in candidates
    errPull,        \* PullAndGetImageInfo: the last pull error
    pgRet,          \* PullAndGetImageInfo: the values returned
    srcNames,       \* names passed to alltransports.ParseImageName, in order,
                    \* each with the position of its candidate
    lookups,        \* GetStoreImage calls of the loop, in order: the position of
                    \* the candidate and whether the image was found
    pulls,          \* positions of the candidates pullImage was called for, in order
    outcomes,       \* how the loop left each candidate it examined, in order
    piPc,           \* pullImage: position inside the call
    piRet,          \* pullImage: the values it returns
    created,        \* pullImage: policy contexts created by this call
    destroyed,      \* pullImage: policyContext.Destroy calls of this call
    copies,         \* pullImage: copy.Image calls of this call
    iiPc,           \* instantiatingImage: position inside the call
    mType,          \* instantiatingImage: media type GetManifest reports
    blob,           \* instantiatingImage: the manifest GetManifest returns
    platform,       \* instantiatingImage: the runtime platform behind sc
    instanceDigest, \* instantiatingImage: the instance chosen, <<>> for nil
    iiRet,          \* instantiatingImage: the values returned
    closed,         \* instantiatingImage: imgSource.Close calls
    files,          \* the paths at which a file exists
    wrappers,       \* the PipeWrappers NewPipeWrapper returned, with whether the session still holds them
    pwRet,          \* NewPipeWrapper: the path it tried and the values it returned
    pwCalls,        \* NewPipeWrapper: calls made
    fiPc,           \* FindImage: position inside the call
    fiStore,        \* FindImage: the images the local store holds
    fiImage,        \* FindImage: argument image, a sequence of tokens
    fiRefOk,        \* FindImage: ParseStoreReference returns no error
    fiImgOk,        \* FindImage: GetStoreImage returns no error
    fiRet,          \* FindImage: the values returned
    exPc,           \* Export: position inside Export and export
    exDest,         \* Export: destSpec
    exErr,          \* export: its local variable err
    exManifest,     \* export: manifestBytes
    exRet,          \* export: the values it returns
    exDestroyErr,   \* export: what policyContext.Destroy returned
    exDestroys,     \* export: policyContext.Destroy calls
    exportRet,      \* Export: the error it returns
    arPc,           \* ArchiveRecv: position inside the call
    arIsIsulad,     \* ArchiveRecv: argument isIsulad
    arChunks,       \* ArchiveRecv: chunks the channel fc still delivers before it is closed
    arTotal,        \* ArchiveRecv: chunks the channel fc delivers in all
    arErr,          \* ArchiveRecv: its local variable err
    arFile,         \* ArchiveRecv: a file exists at dest
    arWritten,      \* ArchiveRecv: chunks written with success
    arWriteFailed,  \* ArchiveRecv: a w.Write returned an error
    arFlushed,      \* ArchiveRecv: w.Flush succeeded
    arRet,          \* ArchiveRecv: the error returned
    rwPc,           \* GetRWLayerByImageID: position inside the call
    rwInitial,      \* GetRWLayerByImageID: names of the containers the store held at the call
    rwContainers,   \* GetRWLayerByImageID: names of the containers the store holds
    rwName,         \* GetRWLayerByImageID: containerName
    rwNames,        \* GetRWLayerByImageID: the names passed to CreateContainer, in order
    rwErr,          \* GetRWLayerByImageID: its local variable err
    rwCreated,      \* GetRWLayerByImageID: name of the container it created, <<>> for none
    rwDeletes,      \* GetRWLayerByImageID: the containers DeleteContainer was called for, in order
    rwRollbackErr,  \* GetRWLayerByImageID: DeleteContainer failed in the rollback
    rwRet           \* GetRWLayerByImageID: the values returned

fifoVars == <<fifoBuf, readers, writers, rCounter, wCounter>>
fsVars == <<pipePath, fileBuf, pdOnFile, rdOnFile>>
bldVars == <<bpc, written, bSavedR>>
pdVars == <<pdPc, berr, imageID, pdSavedR, wfRes>>
rdVars == <<rdPc, rdSavedW, rdChunk, rerr, rdRet, rdFailedDuringBuild>>
egVars == <<egErr, egFirst, errChan, errChanClosed, wtPc>>
supVars == <<supPc, result, via, sessionDeleted, cleaned, wgAdds, wgDones>>
resVars == <<rnPc, name, store, sc, candidates, transport, resolveErr, consulted,
            firstCall>>
piVars == <<piPc, piRet, created, destroyed, copies>>
pullVars == <<pgPc, manifestIndex, idx, errPull, pgRet, srcNames, lookups, pulls,
             outcomes, piVars>>

iiVars == <<iiPc, mType, blob, platform, instanceDigest, iiRet, closed>>
pwVars == <<files, wrappers, pwRet, pwCalls>>
fiVars == <<fiPc, fiStore, fiImage, fiRefOk, fiImgOk, fiRet>>
exVars == <<exPc, exDest, exErr, exManifest, exRet, exDestroyErr, exDestroys, exportRet>>
arVars == <<arPc, arIsIsulad, arChunks, arTotal, arErr, arFile, arWritten, arWriteFailed, arFlushed, arRet>>
rwVars == <<rwPc, rwInitial, rwContainers, rwName, rwNames, rwErr, rwCreated, rwDeletes, rwRollbackErr, rwRet>>
extVars == <<iiVars, pwVars, fiVars, exVars, arVars, rwVars>>

buildVars == <<hasPipe, Done, sentAtClose, fifoBuf, readers, writers, rCounter,
               wCounter, pipePath, fileBuf, pdOnFile, rdOnFile, bpc, written, bSavedR, pdPc, berr, imageID, pdSavedR,
               wfRes, rdPc, rdSavedW, rdChunk, rerr, rdRet, rdFailedDuringBuild,
               egErr, egFirst, errChan, errChanClosed, wtPc,
               supPc, result, via, sessionDeleted, cleaned, wgAdds, wgDones,
               ctxDone, sent>>

coreVars == <<buildVars, resVars, pullVars>>
vars == <<buildVars, resVars, pullVars, extVars>>
\* all the variables but those of one part
notIiVars == <<coreVars, pwVars, fiVars, exVars, arVars, rwVars>>
notPwVars == <<coreVars, iiVars, fiVars, exVars, arVars, rwVars>>
notFiVars == <<coreVars, iiVars, pwVars, exVars, arVars, rwVars>>
notExVars == <<coreVars, iiVars, pwVars, fiVars, arVars, rwVars>>
notArVars == <<coreVars, iiVars, pwVars, fiVars, exVars, rwVars>>
notRwVars == <<coreVars, iiVars, pwVars, fiVars, exVars, arVars>>

\* no earlier call of ResolveName
NoCall == [called |-> FALSE]
\* var errPull error
NoPullErr == [call |-> "", cand |-> 0, err |-> NoErr]
\* PullAndGetImageInfo has returned nothing yet: reference, image, error, and
\* for the error of line 211 the candidates and the pull error it prints
NoReturn == [ref |-> <<>>, img |-> <<>>, err |-> NoErr, listed |-> <<>>,
             last |-> NoPullErr]
\* GetManifest has returned no manifest yet
NoBlob == [list |-> FALSE, manifests |-> <<>>]
\* instantiatingImage has returned nothing yet: no image, no error
NoImage == [img |-> <<>>, err |-> NoErr]
\* no PipeWrapper (nil)
NoWrapper == [PipeFile |-> <<>>, Done |-> FALSE, Err |-> NoErr]
\* NewPipeWrapper has returned nothing yet
NoWrapperReturn == [path |-> <<>>, wrapper |-> NoWrapper, err |-> NoErr]
\* pullImage has returned nothing yet
NoDescribe == [ContainerName |-> <<>>, Mounted |-> FALSE, err |-> NoErr]
\* GetRWLayerByImageID returned nothing yet
NoExported == [ref |-> <<>>, digest |-> <<>>, err |-> NoErr]
\* export returned nothing yet
NoPulled == [ref |-> <<>>, err |-> NoErr]
\* the registries configuration before ResolveName has read it
NoConfig == [searchErr |-> FALSE, search |-> <<>>, find |-> <<>>]
\* errors of reference.ParseNormalizedNamed
ErrNameNotLowercase == "repository name must be lowercase"
ErrReferenceInvalidFormat == "invalid reference format"
\* reference.ErrNameContainsUppercase
ErrNameContainsUppercase == "repository name must be lowercase"
\* reference.ErrNameEmpty
ErrNameEmpty == "repository name must have at least one component"

\* ------------------------------------------------------------------ helpers
Min(a, b) == IF a < b THEN a ELSE b

Take(s, n) == SubSeq(s, 1, Min(n, Len(s)))

Drop(s, n) == SubSeq(s, Min(n, Len(s)) + 1, Len(s))

DataMsg_WholeBuf(d) ==
    [Data |-> d \o [i \in 1..(BufferSize - Len(d)) |-> 0], ImageID |-> ""]

\* a data chunk message: pb.BuildResponse{Data: buf[0:length]}
DataMsg(d) == [Data |-> d, ImageID |-> ""]

\* the final message: pb.BuildResponse{Data: nil, ImageID: imageID}
FinalMsg(id) == [Data |-> <<>>, ImageID |-> id]

EgRecord_LastWins(old, err) == IF err # NoErr THEN err ELSE old

\* errgroup.Group: only the first non-nil error returned by a task is kept
EgRecord(old, err) == IF err # NoErr /\ old = NoErr THEN err ELSE old

\* which task returned the first non-nil error (history of the errgroup)
FirstFailed(old, task, err) == IF err # NoErr /\ old = "none" THEN task ELSE old

\* -------------------------------------------------------------------- init
Init ==
    /\ hasPipe \in BOOLEAN
    /\ Done = FALSE
    /\ sentAtClose = -1
    /\ fifoBuf = <<>>
    /\ readers = 0
    /\ writers = 0
    /\ rCounter = 0
    /\ wCounter = 0
    /\ pipePath = IF hasPipe THEN "fifo" ELSE "absent"
    /\ fileBuf = <<>>
    /\ pdOnFile = FALSE
    /\ rdOnFile = FALSE
    /\ bpc = "idle"
    /\ written = 0
    /\ bSavedR = 0
    /\ pdPc = "idle"
    /\ berr = NoErr
    /\ imageID = ""
    /\ pdSavedR = 0
    /\ wfRes = "none"
    /\ rdPc = "idle"
    /\ rdSavedW = 0
    /\ rdChunk = <<>>
    /\ rerr = NoErr
    /\ rdRet = NoErr
    /\ rdFailedDuringBuild = FALSE
    /\ egErr = NoErr
    /\ egFirst = "none"
    /\ errChan = <<>>
    /\ errChanClosed = FALSE
    /\ wtPc = "idle"
    /\ supPc = "new"
    /\ result = NoErr
    /\ via = "none"
    /\ sessionDeleted = FALSE
    /\ cleaned = 0
    /\ wgAdds = 0
    /\ wgDones = 0
    /\ ctxDone = FALSE
    /\ sent = <<>>
    /\ rnPc = "idle"
    /\ name = <<>>
    /\ store = {}
    /\ sc = NoConfig
    /\ candidates = <<>>
    /\ transport = ""
    /\ resolveErr = NoErr
    /\ consulted = <<>>
    /\ firstCall = NoCall
    /\ pgPc = "idle"
    /\ manifestIndex = 0
    /\ idx = 0
    /\ errPull = NoPullErr
    /\ pgRet = NoReturn
    /\ srcNames = <<>>
    /\ lookups = <<>>
    /\ pulls = <<>>
    /\ outcomes = <<>>
    /\ piPc = "idle"
    /\ piRet = NoPulled
    /\ created = 0
    /\ destroyed = 0
    /\ copies = 0
    /\ iiPc = "idle"
    /\ mType = ""
    /\ blob = NoBlob
    /\ platform = ""
    /\ instanceDigest = <<>>
    /\ iiRet = NoImage
    /\ closed = 0
    /\ files = {}
    /\ wrappers = <<>>
    /\ pwRet = NoWrapperReturn
    /\ pwCalls = 0
    /\ fiPc = "idle"
    /\ fiStore = {}
    /\ fiImage = <<>>
    /\ fiRefOk = TRUE
    /\ fiImgOk = TRUE
    /\ fiRet = NoReturn
    /\ exPc = "idle"
    /\ exDest = <<>>
    /\ exErr = NoErr
    /\ exManifest = <<>>
    /\ exRet = NoExported
    /\ exDestroyErr = NoErr
    /\ exDestroys = 0
    /\ exportRet = NoErr
    /\ arPc = "idle"
    /\ arIsIsulad = FALSE
    /\ arChunks = 0
    /\ arTotal = 0
    /\ arErr = NoErr
    /\ arFile = FALSE
    /\ arWritten = 0
    /\ arWriteFailed = FALSE
    /\ arFlushed = FALSE
    /\ arRet = NoErr
    /\ rwPc = "idle"
    /\ rwInitial = {}
    /\ rwContainers = {}
    /\ rwName = <<>>
    /\ rwNames = <<>>
    /\ rwErr = NoErr
    /\ rwCreated = <<>>
    /\ rwDeletes = <<>>
    /\ rwRollbackErr = FALSE
    /\ rwRet = NoDescribe

\* ------------------------------------------------- Backend.Build: set-up
\* b.daemon.NewBuilder fails: Build returns nerr, nothing was started and the
\* deferred teardown was never registered
NewBuilderFail ==
    /\ supPc = "new"
    /\ supPc' = "returned"
    /\ result' = NewBuilderErr
    /\ via' = "newbuilder"
    /\ wgAdds' = wgAdds + 1
    /\ wgDones' = wgDones + 1
    /\ UNCHANGED <<fsVars, extVars, resVars, pullVars, hasPipe, Done, sentAtClose, fifoVars, bldVars, pdVars, rdVars, egVars,
                   sessionDeleted, cleaned, ctxDone, sent>>

\* NewBuilder succeeds; both eg.Go tasks and the waiter goroutine are started
\* and Build reaches its select
StartTasks ==
    /\ supPc = "new"
    /\ supPc' = "select"
    /\ pdPc' = "start"
    /\ rdPc' = "start"
    /\ wtPc' = "wait"
    /\ wgAdds' = wgAdds + 1
    /\ UNCHANGED <<fsVars, extVars, resVars, pullVars, hasPipe, Done, sentAtClose, fifoVars, bldVars, berr, imageID, pdSavedR,
                   wfRes, rdSavedW, rdChunk, rerr, rdRet, rdFailedDuringBuild,
                   egErr, egFirst, errChan, errChanClosed, result, via, sessionDeleted,
                   cleaned, wgDones,
                   ctxDone, sent>>

\* ------------------------------------------------------------ producer task
\* syncBuildStatus / close(startBuild), then builder.Build() is entered
PdStart ==
    /\ pdPc = "start"
    /\ pdPc' = "build"
    /\ UNCHANGED <<fsVars, extVars, resVars, pullVars, hasPipe, Done, sentAtClose, fifoVars, bldVars, berr, imageID, pdSavedR,
                   wfRes, rdVars, egVars, supVars, ctxDone, sent>>

\* builder.Build(): the exporter opens the pipe for writing; the open blocks
\* until the pipe has a reader. Once the pipe file has been removed there is
\* no pipe for the exporter to open.
BuilderOpen ==
    /\ pdPc = "build" /\ hasPipe /\ bpc = "idle"
    /\ pipePath = "fifo"
    /\ writers' = writers + 1
    /\ wCounter' = wCounter + 1
    /\ IF readers = 0
          THEN bpc' = "opening" /\ bSavedR' = rCounter
          ELSE bpc' = "writing" /\ UNCHANGED bSavedR
    /\ UNCHANGED <<fsVars, extVars, resVars, pullVars, hasPipe, Done, sentAtClose, fifoBuf, readers, rCounter, written, pdVars,
                   rdVars, egVars, supVars, ctxDone, sent>>

\* the builder's blocked open returns once a reader has opened the pipe
BuilderOpened ==
    /\ pdPc = "build" /\ bpc = "opening"
    /\ rCounter # bSavedR
    /\ bpc' = "writing"
    /\ UNCHANGED <<fsVars, extVars, resVars, pullVars, hasPipe, Done, sentAtClose, fifoVars, written, bSavedR, pdVars, rdVars,
                   egVars, supVars, ctxDone, sent>>

\* the builder writes one archive byte; the write blocks while the pipe is full
BuilderWrite ==
    /\ pdPc = "build" /\ bpc = "writing"
    /\ written < MaxWrite
    /\ readers > 0
    /\ Len(fifoBuf) < PipeCap
    /\ fifoBuf' = Append(fifoBuf, written + 1)
    /\ written' = written + 1
    /\ UNCHANGED <<fsVars, extVars, resVars, pullVars, hasPipe, Done, sentAtClose, readers, writers, rCounter, wCounter, bpc,
                   bSavedR, pdVars, rdVars, egVars, supVars, ctxDone, sent>>

\* imageID, berr = builder.Build(): the builder closes its write end (if it
\* had one) and returns an image id, or an error. With an archive export a
\* success implies that the exporter had the pipe open.
BuilderReturn(ok) ==
    /\ pdPc = "build"
    /\ bpc \in {"idle", "writing"}
    /\ ok => (~hasPipe \/ bpc = "writing")
    /\ writers' = IF bpc = "writing" THEN writers - 1 ELSE writers
    /\ bpc' = "done"
    /\ imageID' = IF ok THEN BuiltID ELSE ""
    /\ berr' = IF ok THEN NoErr ELSE BuildErr
    /\ pdPc' = "after"
    /\ UNCHANGED <<fsVars, extVars, resVars, pullVars, hasPipe, Done, sentAtClose, fifoBuf, readers, rCounter, wCounter, written,
                   bSavedR, pdSavedR, wfRes, rdVars, egVars, supVars, ctxDone,
                   sent>>

\* berr == nil || pipeWrapper == nil: the task returns berr
PdReturnDirect ==
    /\ pdPc = "after"
    /\ ~(berr # NoErr /\ hasPipe)
    /\ pdPc' = "returned"
    /\ egErr' = EgRecord(egErr, berr)
    /\ egFirst' = FirstFailed(egFirst, "producer", berr)
    /\ UNCHANGED <<fsVars, extVars, resVars, pullVars, hasPipe, Done, sentAtClose, fifoVars, bldVars, berr, imageID, pdSavedR,
                   wfRes, rdVars, errChan, errChanClosed, wtPc, supVars,
                   ctxDone, sent>>

\* berr != nil && pipeWrapper != nil: pipeWrapper.Close()
PdClosePipe ==
    /\ pdPc = "after"
    /\ berr # NoErr /\ hasPipe
    /\ Done' = TRUE
    /\ sentAtClose' = Len(sent)
    /\ pdPc' = "wf_open"
    /\ UNCHANGED <<fsVars, extVars, resVars, pullVars, hasPipe, fifoVars, bldVars, berr, imageID, pdSavedR, wfRes,
                   rdVars, egVars, supVars, ctxDone, sent>>

\* ioutil.WriteFile: open(PipeFile, O_WRONLY|O_CREATE|O_TRUNC). The open of
\* the pipe blocks until it has a reader; when the pipe file has been removed
\* the open creates a regular file and does not block
PdWriteFileOpen ==
    /\ pdPc = "wf_open"
    /\ IF pipePath = "fifo"
          THEN /\ writers' = writers + 1
               /\ wCounter' = wCounter + 1
               /\ IF readers = 0
                     THEN pdPc' = "wf_opening" /\ pdSavedR' = rCounter
                     ELSE pdPc' = "wf_write" /\ UNCHANGED pdSavedR
               /\ UNCHANGED <<pipePath, fileBuf, pdOnFile>>
          ELSE /\ pipePath' = "file"
               /\ fileBuf' = <<>>
               /\ pdOnFile' = TRUE
               /\ pdPc' = "wf_write"
               /\ UNCHANGED <<writers, wCounter, pdSavedR>>
    /\ UNCHANGED <<rdOnFile, extVars, resVars, pullVars, hasPipe, Done, sentAtClose, fifoBuf, readers, rCounter, bldVars, berr,
                   imageID, wfRes, rdVars, egVars, supVars, ctxDone, sent>>

\* the blocked open of WriteFile returns once a reader has opened the pipe
PdWriteFileOpened ==
    /\ pdPc = "wf_opening"
    /\ rCounter # pdSavedR
    /\ pdPc' = "wf_write"
    /\ UNCHANGED <<fsVars, extVars, resVars, pullVars, hasPipe, Done, sentAtClose, fifoVars, bldVars, berr, imageID, pdSavedR,
                   wfRes, rdVars, egVars, supVars, ctxDone, sent>>

\* ioutil.WriteFile: write([]byte(berr.Error())); on the pipe EPIPE when no
\* read end is open, and the write blocks while the pipe has no room; on the
\* regular file the text goes into the file
PdWriteFileWrite ==
    /\ pdPc = "wf_write"
    /\ IF pdOnFile
          THEN /\ fileBuf' = ErrText
               /\ wfRes' = "file"
               /\ UNCHANGED fifoBuf
          ELSE /\ IF readers = 0
                     THEN wfRes' = "epipe" /\ UNCHANGED fifoBuf
                     ELSE /\ Len(fifoBuf) + Len(ErrText) <= PipeCap
                          /\ fifoBuf' = fifoBuf \o ErrText
                          /\ wfRes' = "ok"
               /\ UNCHANGED fileBuf
    /\ pdPc' = "wf_close"
    /\ UNCHANGED <<pipePath, pdOnFile, rdOnFile, extVars, resVars, pullVars, hasPipe, Done, sentAtClose, readers, writers, rCounter, wCounter, bldVars,
                   berr, imageID, pdSavedR, rdVars, egVars, supVars, ctxDone,
                   sent>>

\* ioutil.WriteFile closes the file; the task returns berr
PdWriteFileClose ==
    /\ pdPc = "wf_close"
    /\ writers' = IF pdOnFile THEN writers ELSE writers - 1
    /\ pdPc' = "returned"
    /\ egErr' = EgRecord(egErr, berr)
    /\ egFirst' = FirstFailed(egFirst, "producer", berr)
    /\ UNCHANGED <<fsVars, extVars, resVars, pullVars, hasPipe, Done, sentAtClose, fifoBuf, readers, rCounter, wCounter, bldVars,
                   berr, imageID, pdSavedR, wfRes, rdVars, errChan,
                   errChanClosed, wtPc, supVars, ctxDone, sent>>

\* -------------------------------------------------------- bridge-reader task
RdNoPipe_SendsEmpty ==
    /\ rdPc = "start"
    /\ ~hasPipe
    /\ rdPc' = "returned"
    /\ rdRet' = NoErr
    /\ sent' = Append(sent, DataMsg(<<>>))
    /\ UNCHANGED <<fsVars, extVars, resVars, pullVars, hasPipe, Done, sentAtClose, fifoVars, bldVars, pdVars, rdSavedW, rdChunk,
                   rerr, rdFailedDuringBuild, egVars, supVars, ctxDone>>

\* pipeWrapper == nil: the task returns nil at once
RdNoPipe ==
    /\ rdPc = "start"
    /\ ~hasPipe
    /\ rdPc' = "returned"
    /\ rdRet' = NoErr
    /\ UNCHANGED <<fsVars, extVars, resVars, pullVars, hasPipe, Done, sentAtClose, fifoVars, bldVars, pdVars, rdSavedW, rdChunk,
                   rerr, rdFailedDuringBuild, egVars, supVars, ctxDone, sent>>

\* exporter.PipeArchiveStream returns an error (as it must when nothing
\* exists at PipeFile): the task returns perr
RdOpenFail ==
    /\ rdPc = "start"
    /\ hasPipe
    /\ rdPc' = "returned"
    /\ rdRet' = OpenErr
    /\ rdFailedDuringBuild' = (pdPc \in {"start", "build"})
    /\ egErr' = EgRecord(egErr, OpenErr)
    /\ egFirst' = FirstFailed(egFirst, "reader", OpenErr)
    /\ UNCHANGED <<fsVars, extVars, resVars, pullVars, hasPipe, Done, sentAtClose, fifoVars, bldVars, pdVars, rdSavedW, rdChunk,
                   rerr, errChan, errChanClosed, wtPc, supVars, ctxDone, sent>>

PipeArchiveStream_ResetsDone ==
    /\ rdPc = "start"
    /\ hasPipe
    /\ Done' = FALSE
    /\ pipePath # "absent"
    /\ IF pipePath = "fifo"
          THEN /\ readers' = readers + 1
               /\ rCounter' = rCounter + 1
               /\ IF writers = 0
                     THEN rdPc' = "opening" /\ rdSavedW' = wCounter
                     ELSE rdPc' = "read" /\ UNCHANGED rdSavedW
               /\ UNCHANGED rdOnFile
          ELSE /\ rdOnFile' = TRUE
               /\ rdPc' = "read"
               /\ UNCHANGED <<readers, rCounter, rdSavedW>>
    /\ UNCHANGED <<pipePath, fileBuf, pdOnFile, extVars, resVars, pullVars, hasPipe, sentAtClose, fifoBuf, writers, wCounter, bldVars,
                   pdVars, rdChunk, rerr, rdRet, rdFailedDuringBuild, egVars,
                   supVars, ctxDone, sent>>

\* exporter.PipeArchiveStream: os.OpenFile(PipeFile, O_RDONLY); the open of
\* the pipe blocks until it has a writer, the open of a regular file returns
\* at once
PipeArchiveStream ==
    /\ rdPc = "start"
    /\ hasPipe
    /\ pipePath # "absent"
    /\ IF pipePath = "fifo"
          THEN /\ readers' = readers + 1
               /\ rCounter' = rCounter + 1
               /\ IF writers = 0
                     THEN rdPc' = "opening" /\ rdSavedW' = wCounter
                     ELSE rdPc' = "read" /\ UNCHANGED rdSavedW
               /\ UNCHANGED rdOnFile
          ELSE /\ rdOnFile' = TRUE
               /\ rdPc' = "read"
               /\ UNCHANGED <<readers, rCounter, rdSavedW>>
    /\ UNCHANGED <<pipePath, fileBuf, pdOnFile, extVars, resVars, pullVars, hasPipe, Done, sentAtClose, fifoBuf, writers, wCounter, bldVars, pdVars,
                   rdChunk, rerr, rdRet, rdFailedDuringBuild, egVars, supVars,
                   ctxDone, sent>>

\* the blocked open of the reader returns once a writer has opened the pipe
RdOpened ==
    /\ rdPc = "opening"
    /\ wCounter # rdSavedW
    /\ rdPc' = "read"
    /\ UNCHANGED <<fsVars, extVars, resVars, pullVars, hasPipe, Done, sentAtClose, fifoVars, bldVars, pdVars, rdSavedW, rdChunk,
                   rerr, rdRet, rdFailedDuringBuild, egVars, supVars, ctxDone,
                   sent>>

RdRead_EOFOnClose ==
    /\ rdPc = "read"
    /\ IF rdOnFile
          THEN /\ rdChunk' = Take(fileBuf, BufferSize)
               /\ fileBuf' = Drop(fileBuf, BufferSize)
               /\ rerr' = IF fileBuf # <<>> THEN NoErr ELSE EOF
               /\ UNCHANGED fifoBuf
          ELSE /\ IF fifoBuf # <<>> /\ writers > 0
                     THEN /\ rdChunk' = Take(fifoBuf, BufferSize)
                          /\ fifoBuf' = Drop(fifoBuf, BufferSize)
                          /\ rerr' = NoErr
                     ELSE /\ writers = 0
                          /\ rdChunk' = <<>>
                          /\ rerr' = EOF
                          /\ UNCHANGED fifoBuf
               /\ UNCHANGED fileBuf
    /\ rdPc' = "check"
    /\ UNCHANGED <<pipePath, pdOnFile, rdOnFile, extVars, resVars, pullVars, hasPipe, Done, sentAtClose, readers, writers, rCounter,
                   wCounter, bldVars, pdVars, rdSavedW, rdRet,
                   rdFailedDuringBuild, egVars, supVars, ctxDone, sent>>

\* length, rerr := reader.Read(buf): up to BufferSize bytes when the pipe
\* holds data, (0, io.EOF) when it is empty and has no writer, and blocks
\* when it is empty and has a writer; a regular file gives its next bytes,
\* or (0, io.EOF) at its end
RdRead ==
    /\ rdPc = "read"
    /\ IF rdOnFile
          THEN /\ rdChunk' = Take(fileBuf, BufferSize)
               /\ fileBuf' = Drop(fileBuf, BufferSize)
               /\ rerr' = IF fileBuf # <<>> THEN NoErr ELSE EOF
               /\ UNCHANGED fifoBuf
          ELSE /\ IF fifoBuf # <<>>
                     THEN /\ rdChunk' = Take(fifoBuf, BufferSize)
                          /\ fifoBuf' = Drop(fifoBuf, BufferSize)
                          /\ rerr' = NoErr
                     ELSE /\ writers = 0
                          /\ rdChunk' = <<>>
                          /\ rerr' = EOF
                          /\ UNCHANGED fifoBuf
               /\ UNCHANGED fileBuf
    /\ rdPc' = "check"
    /\ UNCHANGED <<pipePath, pdOnFile, rdOnFile, extVars, resVars, pullVars, hasPipe, Done, sentAtClose, readers, writers, rCounter, wCounter, bldVars,
                   pdVars, rdSavedW, rdRet, rdFailedDuringBuild, egVars,
                   supVars, ctxDone, sent>>

\* reader.Read(buf) fails with an error other than io.EOF
RdReadFail ==
    /\ rdPc = "read"
    /\ rdChunk' = <<>>
    /\ rerr' = ReadErr
    /\ rdPc' = "check"
    /\ UNCHANGED <<fsVars, extVars, resVars, pullVars, hasPipe, Done, sentAtClose, fifoVars, bldVars, pdVars, rdSavedW, rdRet,
                   rdFailedDuringBuild, egVars, supVars, ctxDone, sent>>

RdCheck_NoDone ==
    /\ rdPc = "check"
    /\ IF rerr = EOF
          THEN rdPc' = "closing" /\ rdRet' = NoErr
          ELSE IF rerr # NoErr
                  THEN rdPc' = "closing" /\ rdRet' = rerr
                  ELSE rdPc' = "send" /\ UNCHANGED rdRet
    /\ UNCHANGED <<fsVars, extVars, resVars, pullVars, hasPipe, Done, sentAtClose, fifoVars, bldVars, pdVars,
                   rdSavedW, rdChunk, rerr, rdFailedDuringBuild, egVars,
                   supVars, ctxDone, sent>>

\* if rerr == io.EOF || pipeWrapper.Done { break }; if rerr != nil { return rerr }
RdCheck ==
    /\ rdPc = "check"
    /\ IF rerr = EOF \/ Done
          THEN rdPc' = "closing" /\ rdRet' = NoErr
          ELSE IF rerr # NoErr
                  THEN rdPc' = "closing" /\ rdRet' = rerr
                  ELSE rdPc' = "send" /\ UNCHANGED rdRet
    /\ UNCHANGED <<fsVars, extVars, resVars, pullVars, hasPipe, Done, sentAtClose, fifoVars, bldVars, pdVars, rdSavedW, rdChunk,
                   rerr, rdFailedDuringBuild, egVars, supVars, ctxDone, sent>>

\* stream.Send(&pb.BuildResponse{Data: buf[0:length]}); on error return serr
RdSend(ok) ==
    /\ rdPc = "send"
    /\ IF ok
          THEN /\ sent' = Append(sent, DataMsg(rdChunk))
               /\ rdPc' = "read"
               /\ UNCHANGED rdRet
          ELSE /\ rdPc' = "closing"
               /\ rdRet' = SendErr
               /\ UNCHANGED sent
    /\ UNCHANGED <<fsVars, extVars, resVars, pullVars, hasPipe, Done, sentAtClose, fifoVars, bldVars, pdVars, rdSavedW, rdChunk,
                   rerr, rdFailedDuringBuild, egVars, supVars, ctxDone>>

\* the deferred f.Close() of the bridge-reader task: the read end of the
\* pipe is gone, which the producer's writes observe (EPIPE)
RdClose ==
    /\ rdPc = "closing"
    /\ readers' = IF rdOnFile THEN readers ELSE readers - 1
    /\ rdPc' = "closed"
    /\ UNCHANGED <<fsVars, extVars, resVars, pullVars, hasPipe, Done, sentAtClose, fifoBuf, writers, rCounter, wCounter, bldVars,
                   pdVars, rdSavedW, rdChunk, rerr, rdRet, rdFailedDuringBuild,
                   egVars, supVars, ctxDone, sent>>

\* the task function has returned rdRet: errgroup records it (errOnce.Do)
\* and marks the task done
RdReturn ==
    /\ rdPc = "closed"
    /\ rdPc' = "returned"
    /\ rdFailedDuringBuild' = (rdRet # NoErr /\ pdPc \in {"start", "build"})
    /\ egErr' = EgRecord(egErr, rdRet)
    /\ egFirst' = FirstFailed(egFirst, "reader", rdRet)
    /\ UNCHANGED <<fsVars, extVars, resVars, pullVars, hasPipe, Done, sentAtClose, fifoVars, bldVars,
                   pdVars, rdSavedW, rdChunk, rerr, rdRet, errChan,
                   errChanClosed, wtPc, supVars, ctxDone, sent>>

\* ------------------------------------------------------------------- waiter
WaiterSend_AnyTask ==
    /\ wtPc = "wait"
    /\ pdPc = "returned" \/ rdPc = "returned"
    /\ errChan' = Append(errChan, egErr)
    /\ wtPc' = "done"
    /\ UNCHANGED <<fsVars, extVars, resVars, pullVars, hasPipe, Done, sentAtClose, fifoVars, bldVars, pdVars, rdVars, egErr, egFirst,
                   errChanClosed, supVars, ctxDone, sent>>

\* go func() { errChan <- eg.Wait() }(): eg.Wait() returns the first recorded
\* error once both tasks have returned
WaiterSend ==
    /\ wtPc = "wait"
    /\ pdPc = "returned" /\ rdPc = "returned"
    /\ Len(errChan) < 1
    /\ errChan' = Append(errChan, egErr)
    /\ wtPc' = "done"
    /\ UNCHANGED <<fsVars, extVars, resVars, pullVars, hasPipe, Done, sentAtClose, fifoVars, bldVars, pdVars, rdVars, egErr, egFirst,
                   errChanClosed, supVars, ctxDone, sent>>

\* --------------------------------------------------------------- supervisor
\* builder.CleanResources(), which the deferred function of Build runs when
\* Build returns: the pipe file of the session is removed
CleanResources == pipePath' = "absent"

SelectErrChan_IgnoreErr ==
    /\ supPc = "select"
    /\ errChan # <<>>
    /\ errChan' = Tail(errChan)
    /\ errChanClosed' = TRUE
    /\ supPc' = "final"
    /\ UNCHANGED <<result, via, sessionDeleted, pipePath, cleaned, wgDones>>
    /\ UNCHANGED <<wgAdds, fileBuf, pdOnFile, rdOnFile, extVars, resVars, pullVars, hasPipe, Done, sentAtClose, fifoVars, bldVars, pdVars, rdVars, egErr, egFirst,
                   wtPc, ctxDone, sent>>

SelectErrChan_FirstError ==
    /\ supPc = "select"
    /\ errChan # <<>> \/ egErr # NoErr
    /\ IF errChan = <<>>
          THEN /\ supPc' = "returned"
               /\ result' = egErr
               /\ via' = "errchan"
               /\ sessionDeleted' = TRUE
               /\ CleanResources
               /\ cleaned' = cleaned + 1
               /\ wgDones' = wgDones + 1
               /\ UNCHANGED <<errChan, errChanClosed>>
          ELSE /\ errChan' = Tail(errChan)
               /\ errChanClosed' = TRUE
               /\ IF Head(errChan) # NoErr
                     THEN /\ supPc' = "returned"
                          /\ result' = Head(errChan)
                          /\ via' = "errchan"
                          /\ sessionDeleted' = TRUE
                          /\ CleanResources
                          /\ cleaned' = cleaned + 1
                          /\ wgDones' = wgDones + 1
                     ELSE /\ supPc' = "final"
                          /\ UNCHANGED <<result, via, sessionDeleted, pipePath, cleaned, wgDones>>
    /\ UNCHANGED <<wgAdds, fileBuf, pdOnFile, rdOnFile, extVars, resVars, pullVars, hasPipe, Done, sentAtClose, fifoVars, bldVars, pdVars, rdVars, egErr,
                   egFirst, wtPc, ctxDone, sent>>

\* case chErr := <-errChan: close(errChan); if chErr != nil { return chErr }
\* (a return runs the deferred CleanResources, deleteBuilder, deleteStatus;
\* CleanResources removes the pipe file of the session)
SelectErrChan ==
    /\ supPc = "select"
    /\ errChan # <<>>
    /\ errChan' = Tail(errChan)
    /\ errChanClosed' = TRUE
    /\ IF Head(errChan) # NoErr
          THEN /\ supPc' = "returned"
               /\ result' = Head(errChan)
               /\ via' = "errchan"
               /\ sessionDeleted' = TRUE
               /\ CleanResources
               /\ cleaned' = cleaned + 1
               /\ wgDones' = wgDones + 1
          ELSE /\ supPc' = "final"
               /\ UNCHANGED <<result, via, sessionDeleted, pipePath, cleaned, wgDones>>
    /\ UNCHANGED <<wgAdds, fileBuf, pdOnFile, rdOnFile, extVars, resVars, pullVars, hasPipe, Done, sentAtClose, fifoVars, bldVars, pdVars, rdVars, egErr, egFirst,
                   wtPc, ctxDone, sent>>

FinalSend_LeaksOnError(ok) ==
    /\ supPc = "final"
    /\ IF ok
          THEN /\ sent' = Append(sent, FinalMsg(imageID))
               /\ result' = NoErr
               /\ via' = "final"
               /\ sessionDeleted' = TRUE
               /\ CleanResources
               /\ cleaned' = cleaned + 1
          ELSE /\ result' = SendErr
               /\ via' = "finalerr"
               /\ UNCHANGED <<sent, sessionDeleted, pipePath, cleaned>>
    /\ supPc' = "returned"
    /\ wgDones' = wgDones + 1
    /\ UNCHANGED <<wgAdds, fileBuf, pdOnFile, rdOnFile, extVars, resVars, pullVars, hasPipe, Done, sentAtClose, fifoVars, bldVars, pdVars, rdVars, egVars,
                   ctxDone>>

\* stream.Send(&pb.BuildResponse{Data: nil, ImageID: imageID}); on error
\* return serr, else fall out of the select and return nil; either way the
\* deferred teardown runs
FinalSend(ok) ==
    /\ supPc = "final"
    /\ IF ok
          THEN /\ sent' = Append(sent, FinalMsg(imageID))
               /\ result' = NoErr
               /\ via' = "final"
          ELSE /\ result' = SendErr
               /\ via' = "finalerr"
               /\ UNCHANGED sent
    /\ supPc' = "returned"
    /\ sessionDeleted' = TRUE
    /\ CleanResources
    /\ cleaned' = cleaned + 1
    /\ wgDones' = wgDones + 1
    /\ UNCHANGED <<wgAdds, fileBuf, pdOnFile, rdOnFile, extVars, resVars, pullVars, hasPipe, Done, sentAtClose, fifoVars, bldVars, pdVars, rdVars, egVars,
                   ctxDone>>

SelectCancelled_Join ==
    /\ supPc = "select"
    /\ ctxDone
    /\ pdPc = "returned" /\ rdPc = "returned"
    /\ supPc' = "returned"
    /\ result' = NoErr
    /\ via' = "cancel"
    /\ sessionDeleted' = TRUE
    /\ CleanResources
    /\ cleaned' = cleaned + 1
    /\ wgDones' = wgDones + 1
    /\ UNCHANGED <<wgAdds, fileBuf, pdOnFile, rdOnFile, extVars, resVars, pullVars, hasPipe, Done, sentAtClose, fifoVars, bldVars, pdVars, rdVars, egVars,
                   ctxDone, sent>>

SelectCancelled_SendsID ==
    /\ supPc = "select"
    /\ ctxDone
    /\ supPc' = "returned"
    /\ result' = NoErr
    /\ via' = "cancel"
    /\ sessionDeleted' = TRUE
    /\ CleanResources
    /\ cleaned' = cleaned + 1
    /\ wgDones' = wgDones + 1
    /\ sent' = Append(sent, FinalMsg(imageID))
    /\ UNCHANGED <<wgAdds, fileBuf, pdOnFile, rdOnFile, extVars, resVars, pullVars, hasPipe, Done, sentAtClose, fifoVars, bldVars, pdVars, rdVars, egVars,
                   ctxDone>>

SelectCancelled_ClosesChan ==
    /\ supPc = "select"
    /\ ctxDone
    /\ supPc' = "returned"
    /\ result' = NoErr
    /\ via' = "cancel"
    /\ sessionDeleted' = TRUE
    /\ CleanResources
    /\ cleaned' = cleaned + 1
    /\ wgDones' = wgDones + 1
    /\ errChanClosed' = TRUE
    /\ UNCHANGED <<wgAdds, fileBuf, pdOnFile, rdOnFile, extVars, resVars, pullVars, hasPipe, Done, sentAtClose, fifoVars, bldVars, pdVars, rdVars, egErr,
                   egFirst, errChan, wtPc, ctxDone, sent>>

\* case <-stream.Context().Done(): (only logs), then return nil. The return
\* runs the deferred CleanResources, deleteBuilder and deleteStatus while the
\* tasks may still be running: the pipe file is removed, so that a later open
\* of PipeFile no longer reaches the pipe and an open of the pipe that is
\* blocked stays blocked
SelectCancelled ==
    /\ supPc = "select"
    /\ ctxDone
    /\ supPc' = "returned"
    /\ result' = NoErr
    /\ via' = "cancel"
    /\ sessionDeleted' = TRUE
    /\ CleanResources
    /\ cleaned' = cleaned + 1
    /\ wgDones' = wgDones + 1
    /\ UNCHANGED <<wgAdds, fileBuf, pdOnFile, rdOnFile, extVars, resVars, pullVars, hasPipe, Done, sentAtClose, fifoVars, bldVars, pdVars, rdVars, egVars,
                   ctxDone, sent>>

\* -------------------------------------------------------------- environment
\* the client cancels the stream while Build is in progress
ClientCancel ==
    /\ supPc # "returned"
    /\ ~ctxDone
    /\ ctxDone' = TRUE
    /\ UNCHANGED <<fsVars, extVars, resVars, pullVars, hasPipe, Done, sentAtClose, fifoVars, bldVars, pdVars, rdVars, egVars,
                   supVars, sent>>

\* ---------------------------------------------------------- specifications
Producer ==
    \/ PdStart \/ PdReturnDirect \/ PdClosePipe \/ PdWriteFileOpen
    \/ PdWriteFileOpened \/ PdWriteFileWrite \/ PdWriteFileClose

Builder ==
    \/ BuilderOpen \/ BuilderOpened \/ BuilderWrite
    \/ \E ok \in BOOLEAN : BuilderReturn(ok)

\* the steps the bridge-reader takes when it is scheduled; the open of a
\* removed PipeFile fails at once, so that failure is one of them
BridgeReader ==
    \/ RdNoPipe \/ PipeArchiveStream \/ RdOpened \/ RdRead \/ RdCheck
    \/ (\E ok \in BOOLEAN : RdSend(ok)) \/ RdClose \/ RdReturn
    \/ (pipePath = "absent" /\ RdOpenFail)

Supervisor ==
    \/ StartTasks \/ SelectErrChan \/ SelectCancelled
    \/ \E ok \in BOOLEAN : FinalSend(ok)

Next ==
    \/ NewBuilderFail
    \/ StartTasks
    \/ PdStart
    \/ BuilderOpen
    \/ BuilderOpened
    \/ BuilderWrite
    \/ \E ok \in BOOLEAN : BuilderReturn(ok)
    \/ PdReturnDirect
    \/ PdClosePipe
    \/ PdWriteFileOpen
    \/ PdWriteFileOpened
    \/ PdWriteFileWrite
    \/ PdWriteFileClose
    \/ RdNoPipe
    \/ RdOpenFail
    \/ PipeArchiveStream
    \/ RdOpened
    \/ RdRead
    \/ RdReadFail
    \/ RdCheck
    \/ \E ok \in BOOLEAN : RdSend(ok)
    \/ RdClose
    \/ RdReturn
    \/ WaiterSend
    \/ SelectErrChan
    \/ \E ok \in BOOLEAN : FinalSend(ok)
    \/ SelectCancelled
    \/ ClientCancel

Spec == Init /\ [][Next]_vars

\* every goroutine of Build, and the builder, keeps being scheduled; I/O
\* failures, a failing NewBuilder and the client's cancellation may or may
\* not happen
FairSpec ==
    /\ Init /\ [][Next]_vars
    /\ WF_vars(Producer)
    /\ WF_vars(Builder)
    /\ WF_vars(BridgeReader)
    /\ WF_vars(WaiterSend)
    /\ WF_vars(Supervisor)

\* only Build's own goroutine and the waiter are assumed to make progress:
\* builder.Build and the two tasks may take arbitrarily long
SupFairSpec ==
    /\ Init /\ [][Next]_vars
    /\ WF_vars(WaiterSend)
    /\ WF_vars(Supervisor)

\* ------------------------------------------------------------ properties
TasksReturned == pdPc = "returned" /\ rdPc = "returned"

ProducerFailed == pdPc = "returned" /\ berr # NoErr

ReaderFailed == rdPc = "returned" /\ rdRet # NoErr

\* builder.Build has just returned an error in a build with an archive pipe
BuildJustFailed == pdPc = "after" /\ berr # NoErr /\ hasPipe

\* a message carrying an image id has been sent to the client
IDSent == \E i \in 1..Len(sent) : sent[i].ImageID # ""

\* C1: with an archive pipe, a producer task that returns after a failed
\* builder.Build has set Done and has written the error text into the pipe,
\* and a bridge-reader that is opening or reading the pipe at the moment
\* builder.Build returns its error eventually terminates.
C1_Original ==
    /\ [](ProducerFailed /\ hasPipe => Done /\ wfRes = "ok")
    /\ ((BuildJustFailed /\ rdPc \in {"opening", "read"}) ~> (rdPc = "returned"))

\* the bridge-reader met a failure of its own: of the open, of a read or of
\* a Send
ReaderTrouble == rdRet # NoErr \/ rerr = ReadErr

\* C2: if builder.Build fails with E while there is an archive pipe and the
\* client does not cancel, Build eventually returns E (stated for the runs in
\* which the bridge-reader meets no failure of its own).
C2_Original ==
    BuildJustFailed ~>
        (ctxDone \/ ReaderTrouble \/ (supPc = "returned" /\ result = berr))

\* C3: once builder.Build has returned, with success or with an error, both
\* the producer task and the bridge-reader task eventually terminate, also
\* when a Send of the bridge-reader fails (stated for the runs in which
\* neither the open nor a read of the pipe fails).
C3_Original ==
    (pdPc = "after") ~> (TasksReturned \/ rdRet \in {OpenErr, ReadErr} \/ rerr = ReadErr)

\* C4: the final message (no data, the image id returned by builder.Build) is
\* sent only after both tasks have returned, and it is the last message: all
\* data chunks precede it.
C4_FinalMessageLast ==
    /\ \A i \in 1..Len(sent) :
          sent[i].Data = <<>> =>
              /\ i = Len(sent)
              /\ TasksReturned
              /\ supPc = "returned"
    /\ via = "final" =>
          /\ Len(sent) > 0
          /\ sent[Len(sent)] = [Data |-> <<>>, ImageID |-> BuiltID]
          /\ imageID = BuiltID

\* a successful archive build: data chunks, then the final message
C4_Witness ==
    /\ via = "final"
    /\ Len(sent) >= 3
    /\ sent[1].Data # <<>>

\* C5 (original): if either task returned an error, Build returns a non-nil
\* error.
C5_Original ==
    (supPc = "returned" /\ (ProducerFailed \/ ReaderFailed)) => result # NoErr

\* C5 (amended): a message carrying an image id is sent only if both tasks
\* returned without error; if a task returned an error and Build returns
\* through the errChan branch, Build returns a non-nil error (through the
\* cancellation branch it returns nil).
C5_NoIDAfterError ==
    /\ IDSent => (TasksReturned /\ berr = NoErr /\ rdRet = NoErr)
    /\ (supPc = "returned" /\ via # "cancel" /\ (ProducerFailed \/ ReaderFailed))
          => (result # NoErr /\ ~IDSent)

\* Build has returned the error of a failed task
C5_Witness ==
    /\ supPc = "returned" /\ via = "errchan"
    /\ ReaderFailed
    /\ ~IDSent

\* C6 (original): if the producer task failed with E, the error Build returns
\* (through the errChan branch) is E, whatever the bridge-reader returned.
C6_Original ==
    (supPc = "returned" /\ via = "errchan" /\ ProducerFailed) => result = berr

\* C6 (amended): if the producer task failed with E and Build returns through
\* the errChan branch, it returns E when the bridge-reader had not returned
\* an error before the producer task returned, and the bridge-reader's error
\* when that one was returned first.
C6_FirstErrorWins ==
    (supPc = "returned" /\ via # "cancel" /\ ProducerFailed) =>
        /\ via = "errchan"
        /\ result = IF egFirst = "reader" THEN rdRet ELSE berr

\* both tasks failed, the bridge-reader first, and Build has returned
C6_Witness ==
    /\ supPc = "returned" /\ via = "errchan"
    /\ ProducerFailed /\ ReaderFailed
    /\ egFirst = "reader"
    /\ result = rdRet /\ result # berr

\* C7 (original): if the bridge-reader fails while builder.Build is running,
\* the supervisor stops waiting: Build can return that error (the waiter can
\* hand it over, or the select can receive it) without builder.Build having
\* to finish first.
C7_Original ==
    (rdFailedDuringBuild /\ supPc = "select" /\ pdPc \in {"start", "build"}) =>
        ENABLED (WaiterSend \/ SelectErrChan)

\* C7 (amended): if the bridge-reader fails while builder.Build is running,
\* Build does not return through the errChan branch before the producer task
\* has returned too; when it then returns, it returns the bridge-reader's error.
C7_ReaderErrorWaitsForProducer ==
    (rdFailedDuringBuild /\ supPc = "returned" /\ via # "cancel") =>
        /\ pdPc = "returned"
        /\ via = "errchan"
        /\ result = rdRet

\* the bridge-reader failed during builder.Build and Build returned its error
C7_Witness ==
    /\ rdFailedDuringBuild
    /\ supPc = "returned" /\ via = "errchan"
    /\ result = SendErr

\* C8: when the client cancels while builder.Build is running, Build returns
\* without the producer or the bridge-reader having to make any further step,
\* and what it returned is not changed by what the tasks do later.
C8_CancelReturnsWithoutTasks ==
    /\ ((ctxDone /\ pdPc \in {"start", "build"}) ~> (supPc = "returned"))
    /\ [][supPc = "returned" => (supPc' = "returned" /\ result' = result)]_vars

\* Build has returned through the cancellation branch while builder.Build is
\* running and the bridge-reader has not returned
C8_Witness ==
    /\ supPc = "returned" /\ via = "cancel"
    /\ pdPc = "build"
    /\ rdPc \in {"opening", "read", "send"}

\* C9 (original): a Build that stops waiting because the client cancelled
\* returns a non-nil error.
C9_Original == via = "cancel" => result # NoErr

\* C9 (amended): a Build that stops waiting because the client cancelled
\* returns nil and has sent no message carrying an image id.
C9_CancelReturnsNil ==
    via = "cancel" => (supPc = "returned" /\ result = NoErr /\ ~IDSent)

\* Build returned through the cancellation branch although a task had failed
C9_Witness ==
    /\ via = "cancel"
    /\ ProducerFailed
    /\ result = NoErr

\* C10: the session state of the build is never deleted while the producer
\* task or the bridge-reader task is still running.
C10_Original == sessionDeleted => TasksReturned

\* the bytes of the data chunks sent to the client, in the order sent
RECURSIVE Flatten(_)
Flatten(ms) == IF ms = <<>> THEN <<>> ELSE Head(ms).Data \o Flatten(Tail(ms))

SentBytes == Flatten(sent)

\* the archive bytes the builder has written into the pipe
WrittenBytes == [i \in 1..written |-> i]

\* everything written into the pipe: the archive bytes, then the error text
PipeBytes == WrittenBytes \o (IF wfRes = "ok" THEN ErrText ELSE <<>>)

IsPrefix(a, b) == Len(a) <= Len(b) /\ SubSeq(b, 1, Len(a)) = a

\* builder.Build has failed in a build with an archive pipe and the
\* bridge-reader has terminated
ReaderDoneAfterFailure == hasPipe /\ berr # NoErr /\ rdPc = "returned"

\* C11: PipeWrapper.Done is false until PipeWrapper.Close runs (it is false
\* when Build starts) and no step of Build, of its tasks or of
\* PipeArchiveStream sets it back to false.
C11_DoneMonotonic ==
    /\ [](supPc = "new" => ~Done)
    /\ [][Done => Done']_vars

\* Close has run and both tasks and Build went on to their end afterwards
C11_Witness ==
    /\ Done
    /\ TasksReturned
    /\ supPc = "returned" /\ via = "errchan"

\* C12: at every point the bytes of the data chunks sent so far are a prefix
\* of the bytes written into the pipe.
C12_SentIsPrefixOfWritten == IsPrefix(SentBytes, PipeBytes)

\* the whole archive went through in more than one chunk
C12_Witness ==
    /\ written >= 3
    /\ SentBytes = WrittenBytes
    /\ Len(sent) >= 2

\* C13 (original): when builder.Build fails after N bytes were written, a
\* bridge-reader that met no Send failure (and no read failure) terminates
\* having forwarded exactly those N bytes.
C13_Original ==
    (ReaderDoneAfterFailure /\ rdRet = NoErr /\ rerr # ReadErr)
        => SentBytes = WrittenBytes

\* C13 (amended): when builder.Build fails after N bytes were written, the
\* bridge-reader terminates having forwarded a prefix of those N bytes, and
\* all N of them when it left its loop on end-of-stream.
C13_ForwardedOnFailure ==
    ReaderDoneAfterFailure =>
        /\ IsPrefix(SentBytes, WrittenBytes)
        /\ (rerr = EOF => SentBytes = WrittenBytes)

\* the builder failed after two or more bytes, the reader ended on
\* end-of-stream and forwarded them all
C13_Witness ==
    /\ ReaderDoneAfterFailure
    /\ rerr = EOF
    /\ written >= 2
    /\ SentBytes = WrittenBytes

\* C14 (original): once Done is set, no further data chunk is sent.
C14_Original == [][Done => sent' = sent]_vars

\* C14 (amended): after Done is set at most one more data chunk is sent (the
\* one whose check of Done came before the Close), and no byte of the error
\* text is ever sent to the client.
C14_ErrorTextNotForwarded ==
    /\ \A i \in 1..Len(sent) : \A j \in 1..Len(sent[i].Data) :
          \A k \in 1..Len(ErrText) : sent[i].Data[j] # ErrText[k]
    /\ Done => Len(sent) <= sentAtClose + 1

\* the reader sent the chunk that was in flight when Close ran, then read
\* the error text and did not forward it
C14_Witness ==
    /\ Done /\ wfRes = "ok"
    /\ rdPc = "returned"
    /\ rdChunk = ErrText
    /\ Len(sent) = sentAtClose + 1

\* ===================================================== image.ResolveName
\* Strings are sequences of tokens: a token is a separator character or a
\* run of characters that holds no separator; "docker.io/busybox:latest" is
\* <<"docker.io", "/", "busybox", ":", "latest">>.
Separators == {":", "/", " "}
\* words with a ".", words with an upper-case letter, words of digits; every
\* other word is lower-case letters, digits and inner "-"
DottedWords == {"reg.io", "docker.io", "index.docker.io"}
UpperWords == {"UP"}
DigitWords == {"5000"}

IsWord(t) == t \notin Separators
IsLower(t) == t \notin UpperWords
HasDot(t) == t \in DottedWords

\* strings.IndexRune(s, c) + 1: position of the first token c, 0 when absent
IndexRune(s, c) ==
    IF \E k \in 1..Len(s) : s[k] = c
      THEN CHOOSE k \in 1..Len(s) : s[k] = c /\ \A j \in 1..(k - 1) : s[j] # c
      ELSE 0

\* strings.ContainsRune(s, c)
ContainsRune(s, c) == IndexRune(s, c) # 0

\* strings.SplitN(s, sep, 2)
SplitN2(s, sep) ==
    LET i == IndexRune(s, sep)
    IN  IF i = 0 THEN <<s>>
        ELSE <<SubSeq(s, 1, i - 1), SubSeq(s, i + 1, Len(s))>>

\* strings.HasPrefix(s, p)
HasPrefix(s, p) == Len(s) >= Len(p) /\ SubSeq(s, 1, Len(p)) = p

\* strings.TrimPrefix(s, p)
TrimPrefix(s, p) == IF HasPrefix(s, p) THEN SubSeq(s, Len(p) + 1, Len(s)) ELSE s

\* strings.TrimSpace(s)
RECURSIVE TrimLeft(_)
TrimLeft(s) == IF s # <<>> /\ Head(s) = " " THEN TrimLeft(Tail(s)) ELSE s

RECURSIVE TrimRight(_)
TrimRight(s) ==
    IF s # <<>> /\ s[Len(s)] = " " THEN TrimRight(SubSeq(s, 1, Len(s) - 1)) ELSE s

TrimSpace(s) == TrimRight(TrimLeft(s))

\* the pieces of s between its "/" tokens
RECURSIVE SplitSlash(_)
SplitSlash(s) ==
    IF ~ContainsRune(s, "/") THEN <<s>>
    ELSE <<SubSeq(s, 1, IndexRune(s, "/") - 1)>>
             \o SplitSlash(SubSeq(s, IndexRune(s, "/") + 1, Len(s)))

\* s with every run of "/" replaced by one "/"
RECURSIVE CollapseSlashes(_)
CollapseSlashes(s) ==
    IF Len(s) < 2 THEN s
    ELSE IF s[1] = "/" /\ s[2] = "/" THEN CollapseSlashes(Tail(s))
    ELSE <<s[1]>> \o CollapseSlashes(Tail(s))

\* path.Clean of a non-empty path (no token is a "." or ".." element):
\* runs of "/" become one "/" and a trailing "/" is dropped, unless the
\* path is the root
Clean(s) ==
    IF Len(CollapseSlashes(s)) > 1 /\ CollapseSlashes(s)[Len(CollapseSlashes(s))] = "/"
      THEN SubSeq(CollapseSlashes(s), 1, Len(CollapseSlashes(s)) - 1)
      ELSE CollapseSlashes(s)

\* path.Join: the non-empty elements with "/" between them, cleaned; ""
\* when every element is empty
RECURSIVE JoinPath(_)
JoinPath(elems) ==
    IF elems = <<>> THEN <<>>
    ELSE IF Head(elems) = <<>> THEN JoinPath(Tail(elems))
    ELSE IF JoinPath(Tail(elems)) = <<>> THEN Clean(Head(elems))
    ELSE Clean(Head(elems) \o <<"/">> \o JoinPath(Tail(elems)))

\* ------------------------------------------------- names of the constants
DefaultTag == "latest"
DockerTransport == "docker"
DockerArchiveTransport == "docker-archive"
OCIArchiveTransport == "oci-archive"

\* transports.Get: the transports that alltransports registers
KnownTransports ==
    {"atomic", "containers-storage", "dir", "docker", "docker-archive",
     "docker-daemon", "oci", "oci-archive", "tarball"}

\* util.DefaultRegistryPathPrefix
DefaultRegistryPathPrefix ==
    [d \in {"index.docker.io", "docker.io"} |-> "library"]

\* ------------------------------------------------------ stage 2: the store
\* store.Image(key): the ID of the image held under the name key or with
\* the ID key, "" when none is
StoreImage(st, key) ==
    IF \E im \in st : im.key = key
      THEN <<(CHOOSE im \in st : im.key = key).ID>>
    ELSE IF \E im \in st : <<im.ID>> = key
      THEN key
    ELSE <<>>

tryResolveNameInStore_BareFirst(n, st) ==
    IF StoreImage(st, n) # <<>>
      THEN StoreImage(st, n)
      ELSE StoreImage(st, n \o <<":", DefaultTag>>)

\* tryResolveNameInStore: name:latest first, then the bare name
tryResolveNameInStore(n, st) ==
    IF StoreImage(st, n \o <<":", DefaultTag>>) # <<>>
      THEN StoreImage(st, n \o <<":", DefaultTag>>)
      ELSE StoreImage(st, n)

\* --------------------------------------- stage 3: transport:destination
tryResolveNameWithTransport_KeepSlashes(n) ==
    LET splits == SplitN2(n, ":")
    IN  IF Len(splits) = 2 /\ Len(splits[1]) = 1
           /\ splits[1][1] \in
                {DockerTransport, DockerArchiveTransport, OCIArchiveTransport}
          THEN [dest |-> splits[2], transport |-> splits[1][1]]
          ELSE [dest |-> <<>>, transport |-> ""]

\* tryResolveNameWithTransport: split at the first ":" and look the first
\* part up among the transports
tryResolveNameWithTransport(n) ==
    LET splits == SplitN2(n, ":")
    IN  IF Len(splits) = 2 /\ Len(splits[1]) = 1
           /\ splits[1][1] \in KnownTransports
          THEN IF splits[1][1] = DockerTransport
                 THEN [dest |-> TrimPrefix(splits[2], <<"/", "/">>),
                       transport |-> splits[1][1]]
               ELSE IF splits[1][1] \in {DockerArchiveTransport, OCIArchiveTransport}
                 THEN [dest |-> TrimSpace(splits[2]),
                       transport |-> splits[1][1]]
               ELSE [dest |-> <<>>, transport |-> ""]
          ELSE [dest |-> <<>>, transport |-> ""]

\* ------------------------------------------ stage 4: docker references
\* the part of a name before its first "/" is a domain of its own: it holds
\* a "." or a ":", or it is localhost
DomainLike(pre) ==
    \/ \E k \in 1..Len(pre) : pre[k] = ":" \/ HasDot(pre[k])
    \/ pre = <<"localhost">>

HasOwnDomain(n) ==
    /\ ContainsRune(n, "/")
    /\ DomainLike(SubSeq(n, 1, IndexRune(n, "/") - 1))

\* index.docker.io is the legacy name of docker.io
LegacyDomain(sp) ==
    [domain |-> IF sp.domain = <<"index.docker.io">> THEN <<"docker.io">> ELSE sp.domain,
     remainder |-> sp.remainder]

\* a one-component repository of docker.io lives under library/
OfficialRepo(sp) ==
    [domain |-> sp.domain,
     remainder |-> IF sp.domain = <<"docker.io">> /\ ~ContainsRune(sp.remainder, "/")
                     THEN <<"library", "/">> \o sp.remainder
                     ELSE sp.remainder]

\* reference.splitDockerDomain
splitDockerDomain(n) ==
    OfficialRepo(LegacyDomain(
        IF HasOwnDomain(n)
          THEN [domain |-> SubSeq(n, 1, IndexRune(n, "/") - 1),
                remainder |-> SubSeq(n, IndexRune(n, "/") + 1, Len(n))]
          ELSE [domain |-> <<"docker.io">>, remainder |-> n]))

\* one path component of a repository name: a lower-case word
IsPathComponent(c) == Len(c) = 1 /\ IsWord(c[1]) /\ IsLower(c[1])

\* a domain: a word, or a word with a port
IsDomain(c) ==
    \/ Len(c) = 1 /\ IsWord(c[1])
    \/ Len(c) = 3 /\ IsWord(c[1]) /\ c[2] = ":" /\ c[3] \in DigitWords

\* the name part of reference.ReferenceRegexp, given the pieces cs between
\* its "/": [domain "/"] component {"/" component}
ComponentsHaveDomain(cs) ==
    /\ Len(cs) >= 2
    /\ IsDomain(cs[1])
    /\ \A k \in 2..Len(cs) : IsPathComponent(cs[k])

ComponentsAreName(cs) ==
    \/ ComponentsHaveDomain(cs)
    \/ \A k \in 1..Len(cs) : IsPathComponent(cs[k])

HasDomain(nm) == ComponentsHaveDomain(SplitSlash(nm))

IsName(nm) == ComponentsAreName(SplitSlash(nm))

\* the reference t ends with ":" tag
IsTagged(t) ==
    /\ Len(t) >= 3
    /\ t[Len(t) - 1] = ":"
    /\ IsWord(t[Len(t)])
    /\ IsName(SubSeq(t, 1, Len(t) - 2))

\* the reference with string t, name nm and tag tg
Reference(t, nm, tg) ==
    IF ~IsName(nm)
      THEN [err |-> ErrReferenceInvalidFormat, domain |-> <<>>,
            path |-> <<>>, tag |-> <<>>, str |-> <<>>]
    ELSE IF HasDomain(nm)
      THEN [err |-> NoErr,
            domain |-> SubSeq(nm, 1, IndexRune(nm, "/") - 1),
            path |-> SubSeq(nm, IndexRune(nm, "/") + 1, Len(nm)),
            tag |-> tg, str |-> t]
    ELSE [err |-> NoErr, domain |-> <<>>, path |-> nm, tag |-> tg, str |-> t]

\* ReferenceRegexp matched against a reference without digest:
\* name [":" tag]
ReferenceMatch(t) ==
    IF IsTagged(t)
      THEN Reference(t, SubSeq(t, 1, Len(t) - 2), <<t[Len(t)]>>)
      ELSE Reference(t, t, <<>>)

\* strings.ToLower
ToLower(t) == [k \in 1..Len(t) |-> IF t[k] \in UpperWords THEN "up" ELSE t[k]]

\* reference.Parse: when the reference does not match, the error is
\* ErrNameEmpty for "", ErrNameContainsUppercase when the lower-cased
\* reference matches, ErrReferenceInvalidFormat otherwise
ReferenceParse(t) ==
    IF ReferenceMatch(t).err = NoErr
      THEN ReferenceMatch(t)
    ELSE IF t = <<>>
      THEN [ReferenceMatch(t) EXCEPT !.err = ErrNameEmpty]
    ELSE IF ReferenceMatch(ToLower(t)).err = NoErr
      THEN [ReferenceMatch(t) EXCEPT !.err = ErrNameContainsUppercase]
    ELSE ReferenceMatch(t)

AllLower(s) == \A k \in 1..Len(s) : IsLower(s[k])

\* ParseNormalizedNamed after splitDockerDomain: the repository name must be
\* lower-case and domain/remainder must be a reference
ParseSplit(sp) ==
    IF ~AllLower(SplitN2(sp.remainder, ":")[1])
      THEN [err |-> ErrNameNotLowercase, domain |-> <<>>, path |-> <<>>,
            tag |-> <<>>, str |-> <<>>]
      ELSE ReferenceParse(sp.domain \o <<"/">> \o sp.remainder)

\* reference.ParseNormalizedNamed (no token is a 64-digit hexadecimal
\* identifier, so its first test never fails here)
ParseNormalizedNamed(n) == ParseSplit(splitDockerDomain(n))

\* named is the short form of n: its domain has a default path prefix, its
\* path starts with it, and domain/rest-of-path[:tag] is n
IsDefaultPrefixAlias(n, named) ==
    /\ Len(named.domain) = 1
    /\ named.domain[1] \in DOMAIN DefaultRegistryPathPrefix
    /\ HasPrefix(named.path, <<DefaultRegistryPathPrefix[named.domain[1]], "/">>)
    /\ JoinPath(<<named.domain, SubSeq(named.path, 3, Len(named.path))>>)
           \o (IF named.tag # <<>> THEN <<":">> \o named.tag ELSE <<>>) = n

DockerReferenceOf_IgnoreParseError(n, named) ==
    IF named.err = NoErr /\ named.str = n
      THEN [dest |-> n, transport |-> DockerTransport, err |-> NoErr]
      ELSE [dest |-> <<>>, transport |-> "", err |-> NoErr]

DockerReferenceOf_ReturnsNormalized(n, named) ==
    IF named.err # NoErr
      THEN [dest |-> <<>>, transport |-> "", err |-> named.err]
    ELSE IF named.str = n \/ IsDefaultPrefixAlias(n, named)
      THEN [dest |-> named.str, transport |-> DockerTransport, err |-> NoErr]
    ELSE [dest |-> <<>>, transport |-> "", err |-> NoErr]

\* the body of tryResolveNameWithDockerReference after the parse
DockerReferenceOf(n, named) ==
    IF named.err # NoErr
      THEN [dest |-> <<>>, transport |-> "", err |-> named.err]
    ELSE IF named.str = n
      THEN [dest |-> n, transport |-> DockerTransport, err |-> NoErr]
    ELSE IF IsDefaultPrefixAlias(n, named)
      THEN [dest |-> n, transport |-> DockerTransport, err |-> NoErr]
    ELSE [dest |-> <<>>, transport |-> "", err |-> NoErr]

\* tryResolveNameWithDockerReference: the name round-trips through
\* ParseNormalizedNamed, or it is the short form of a default-registry name
tryResolveNameWithDockerReference(n) == DockerReferenceOf(n, ParseNormalizedNamed(n))

\* ------------------------------------------- stage 5: registries search
\* sysregistriesv2.FindRegistry(sc, registry): "err" when it fails, "blocked"
\* for a registry with Blocked set, "open" for one without and for no entry
FindRegistry(cfg, registry) ==
    IF registry \in DOMAIN cfg.find THEN cfg.find[registry] ELSE "open"

\* path.Join(registry, middle, name) for every non-empty registry of regs
RECURSIVE CandidatesOf(_, _)
CandidatesOf(regs, n) ==
    IF regs = <<>> THEN <<>>
    ELSE IF Head(regs) = "" THEN CandidatesOf(Tail(regs), n)
    ELSE LET registry == Head(regs)
             middle == IF /\ registry \in DOMAIN DefaultRegistryPathPrefix
                          /\ ~ContainsRune(n, "/")
                         THEN <<DefaultRegistryPathPrefix[registry]>>
                         ELSE <<>>
         IN  <<JoinPath(<<(<<registry>>), middle, n>>)>>
                 \o CandidatesOf(Tail(regs), n)

UsableRegistries_KeepBlocked(cfg) ==
    LET searchRegistries == IF cfg.searchErr THEN <<>> ELSE cfg.search
        Usable(registry) == FindRegistry(cfg, registry) # "err"
    IN  SelectSeq(searchRegistries, Usable)

\* the first loop of tryResolveNameInRegistries: the configured search
\* registries that FindRegistry reads without error and that are not blocked
UsableRegistries(cfg) ==
    LET searchRegistries == IF cfg.searchErr THEN <<>> ELSE cfg.search
        Usable(registry) == FindRegistry(cfg, registry) = "open"
    IN  SelectSeq(searchRegistries, Usable)

tryResolveNameInRegistries(n, cfg) ==
    [candidates |-> CandidatesOf(<<"localhost">> \o UsableRegistries(cfg), n),
     transport |-> DockerTransport]

\* ------------------------------------------------ inputs of ResolveName
\* transport prefixes an image name may start with
Prefixes ==
    {<<>>, <<"docker", ":">>, <<"docker", ":", "/", "/">>,
     <<"docker-archive", ":">>, <<"oci-archive", ":">>, <<"dir", ":">>}

BodyTokens == {"busybox", "reg.io", "docker.io", "UP", ":", "/", " "}

\* token sequences in which no two words are adjacent
Bodies ==
    {b \in UNION {[1..k -> BodyTokens] : k \in 0..MaxBodyLen} :
        \A i \in 1..(Len(b) - 1) : ~(IsWord(b[i]) /\ IsWord(b[i + 1]))}

Names == {p \o b : p \in Prefixes, b \in Bodies}

\* what the local store may hold for name n: an image under n:latest, an
\* image under n, both or none
StoreVariants(n) ==
    SUBSET {[key |-> n \o <<":", DefaultTag>>, ID |-> "id1"],
            [key |-> n, ID |-> "id2"]}

RegistryNames == {"reg.io", "docker.io", "localhost", ""}

\* registries configurations: the search list (or the failure to read it)
\* and what FindRegistry answers for each registry that has an entry
Configs ==
    {[searchErr |-> e, search |-> l, find |-> f] :
        e \in {FALSE},
        l \in UNION {[1..k -> RegistryNames] : k \in 0..MaxRegs},
        f \in [RegistryNames \ {""} -> {"open", "blocked", "err"}]}
    \cup
    {[searchErr |-> e, search |-> <<>>, find |-> f] :
        e \in {TRUE},
        f \in [RegistryNames \ {""} -> {"open", "blocked", "err"}]}

\* the store a call finds: any store, and for a call that repeats an earlier
\* one the store of that call, unchanged
StoresRead == IF firstCall.called THEN {store} ELSE StoreVariants(name)

\* the registries configuration a call finds: any configuration, and for a
\* call that repeats an earlier one that read it, the same configuration
ConfigsRead == IF firstCall.called /\ sc # NoConfig THEN {sc} ELSE Configs

\* --------------------------------------------------- ResolveName, by stage
\* return candidates, transport, err
RnReturn(c, t, e) ==
    /\ rnPc' = "returned"
    /\ candidates' = c
    /\ transport' = t
    /\ resolveErr' = e

\* a caller calls ResolveName(name, sc, store)
RnCall ==
    /\ rnPc = "idle"
    /\ \E n \in Names : name' = n
    /\ rnPc' = "check"
    /\ UNCHANGED <<extVars, buildVars, pullVars, firstCall, store, sc, candidates, transport, resolveErr,
                   consulted>>

RnEmptyName_FallsThrough ==
    /\ rnPc = "check"
    /\ name = <<>>
    /\ rnPc' = "transport"
    /\ consulted' = Append(consulted, "store")
    /\ UNCHANGED <<extVars, buildVars, pullVars, firstCall, name, store, sc, candidates, transport, resolveErr>>

\* 1. if name == "" { return nil, "", nil }
RnEmptyName ==
    /\ rnPc = "check"
    /\ name = <<>>
    /\ RnReturn(<<>>, "", NoErr)
    /\ UNCHANGED <<extVars, buildVars, pullVars, firstCall, name, store, sc, consulted>>

RnStore_KeepsGoing ==
    /\ rnPc = "check"
    /\ name # <<>>
    /\ \E st \in StoresRead :
          /\ store' = st
          /\ LET imageId == tryResolveNameInStore(name, st)
             IN  candidates' = IF imageId # <<>> THEN <<imageId>> ELSE <<>>
    /\ rnPc' = "transport"
    /\ consulted' = Append(consulted, "store")
    /\ UNCHANGED <<extVars, buildVars, pullVars, firstCall, name, sc, transport, resolveErr>>

\* 2. tryResolveNameInStore
RnStore ==
    /\ rnPc = "check"
    /\ name # <<>>
    /\ \E st \in StoresRead :
          /\ store' = st
          /\ LET imageId == tryResolveNameInStore(name, st)
             IN  IF imageId # <<>>
                   THEN RnReturn(<<imageId>>, "", NoErr)
                   ELSE /\ rnPc' = "transport"
                        /\ UNCHANGED <<candidates, transport, resolveErr>>
    /\ consulted' = Append(consulted, "store")
    /\ UNCHANGED <<extVars, buildVars, pullVars, firstCall, name, sc>>

\* 3. tryResolveNameWithTransport
RnTransport ==
    /\ rnPc = "transport"
    /\ LET r == tryResolveNameWithTransport(name)
       IN  IF r.dest # <<>> /\ r.transport # ""
             THEN RnReturn(<<r.dest>>, r.transport, NoErr)
             ELSE /\ rnPc' = "dockerref"
                  /\ UNCHANGED <<candidates, transport, resolveErr>>
    /\ consulted' = Append(consulted, "transport")
    /\ UNCHANGED <<extVars, buildVars, pullVars, firstCall, name, store, sc>>

\* 4. tryResolveNameWithDockerReference
RnDockerReference ==
    /\ rnPc = "dockerref"
    /\ LET r == tryResolveNameWithDockerReference(name)
       IN  IF r.err # NoErr
             THEN RnReturn(<<>>, "", r.err)
           ELSE IF r.dest # <<>> /\ r.transport # ""
             THEN RnReturn(<<r.dest>>, r.transport, NoErr)
           ELSE /\ rnPc' = "registries"
                /\ UNCHANGED <<candidates, transport, resolveErr>>
    /\ consulted' = Append(consulted, "dockerref")
    /\ UNCHANGED <<extVars, buildVars, pullVars, firstCall, name, store, sc>>

\* 5. tryResolveNameInRegistries
RnRegistries ==
    /\ rnPc = "registries"
    /\ \E cfg \in ConfigsRead :
          /\ sc' = cfg
          /\ LET r == tryResolveNameInRegistries(name, cfg)
             IN  RnReturn(r.candidates, r.transport, NoErr)
    /\ consulted' = Append(consulted, "registries")
    /\ UNCHANGED <<extVars, buildVars, pullVars, firstCall, name, store>>

\* the caller calls ResolveName again with the same name, the store and the
\* registries configuration being what they were
RnCallAgain ==
    /\ rnPc = "returned"
    /\ ~firstCall.called
    /\ firstCall' = [called |-> TRUE, candidates |-> candidates,
                     transport |-> transport, err |-> resolveErr]
    /\ rnPc' = "check"
    /\ candidates' = <<>>
    /\ transport' = ""
    /\ resolveErr' = NoErr
    /\ consulted' = <<>>
    /\ UNCHANGED <<extVars, buildVars, pullVars, name, store, sc>>

ResolveNext ==
    \/ RnCall
    \/ RnCallAgain
    \/ RnEmptyName
    \/ RnStore
    \/ RnTransport
    \/ RnDockerReference
    \/ RnRegistries

ResolveInit == Init /\ ~hasPipe

ResolveSpec == ResolveInit /\ [][ResolveNext]_vars

\* ======================================================= image resolution
\* ------------------------------------------------- ResolveName, as a whole
ResolveFromRegistries(n, cfg) ==
    [candidates |-> tryResolveNameInRegistries(n, cfg).candidates,
     transport |-> tryResolveNameInRegistries(n, cfg).transport,
     err |-> NoErr]

ResolveFromDockerReference(n, cfg, r) ==
    IF r.err # NoErr
      THEN [candidates |-> <<>>, transport |-> "", err |-> r.err]
    ELSE IF r.dest # <<>> /\ r.transport # ""
      THEN [candidates |-> <<r.dest>>, transport |-> r.transport, err |-> NoErr]
    ELSE ResolveFromRegistries(n, cfg)

ResolveFromTransport(n, cfg, r) ==
    IF r.dest # <<>> /\ r.transport # ""
      THEN [candidates |-> <<r.dest>>, transport |-> r.transport, err |-> NoErr]
      ELSE ResolveFromDockerReference(n, cfg, tryResolveNameWithDockerReference(n))

ResolveFromStore(n, cfg, imageId) ==
    IF imageId # <<>>
      THEN [candidates |-> <<imageId>>, transport |-> "", err |-> NoErr]
      ELSE ResolveFromTransport(n, cfg, tryResolveNameWithTransport(n))

\* ResolveName(name, sc, store): what the stages above return, in one step
ResolveName(n, cfg, st) ==
    IF n = <<>>
      THEN [candidates |-> <<>>, transport |-> "", err |-> NoErr]
      ELSE ResolveFromStore(n, cfg, tryResolveNameInStore(n, st))

\* ------------------------------------------------------ source references
\* exporter.FormatTransport: transport://ref for docker, transport:ref else
FormatTransport(t, ref) ==
    IF t = DockerTransport
      THEN <<t, ":", "/", "/">> \o ref
      ELSE <<t, ":">> \o ref

\* strconv.Itoa
Itoa(i) == ToString(i)

SourceName_BothArchives(t, strImage, index) ==
    IF t \in {DockerArchiveTransport, OCIArchiveTransport}
      THEN FormatTransport(t, strImage) \o <<":", "@", Itoa(index)>>
      ELSE FormatTransport(t, strImage)

\* the name PullAndGetImageInfo hands to alltransports.ParseImageName for the
\* candidate strImage: docker-archive gets ":@" and opt.ManifestIndex appended
SourceName(t, strImage, index) ==
    IF t = DockerArchiveTransport
      THEN FormatTransport(t, strImage) \o <<":", "@", Itoa(index)>>
      ELSE FormatTransport(t, strImage)

\* no image reference
NilRef(e) ==
    [err |-> e, transport |-> "", domain |-> <<>>, path |-> <<>>, tag |-> <<>>]

\* reference.TagNameOnly on a parsed name, as a reference of transport docker
DockerRef(named) ==
    IF named.err # NoErr THEN NilRef(named.err)
    ELSE [err |-> NoErr, transport |-> DockerTransport, domain |-> named.domain,
          path |-> named.path,
          tag |-> IF named.tag = <<>> THEN <<DefaultTag>> ELSE named.tag]

\* ParseReference of transport t on refString; ok is what the archive
\* transports answer for a path
ParseReference(t, refString, ok) ==
    IF t = DockerTransport
      THEN IF HasPrefix(refString, <<"/", "/">>)
             THEN DockerRef(ParseNormalizedNamed(TrimPrefix(refString, <<"/", "/">>)))
             ELSE NilRef("does not start with //")
    ELSE IF ok
      THEN [err |-> NoErr, transport |-> t, domain |-> <<>>, path |-> refString,
            tag |-> <<>>]
    ELSE NilRef("invalid reference")

\* alltransports.ParseImageName: transport ":" reference
ParseImageName(imgName, ok) ==
    IF Len(SplitN2(imgName, ":")) # 2
      THEN NilRef("invalid image name")
    ELSE IF Len(SplitN2(imgName, ":")[1]) # 1
            \/ SplitN2(imgName, ":")[1][1] \notin KnownTransports
      THEN NilRef("unknown transport")
    ELSE ParseReference(SplitN2(imgName, ":")[1][1], SplitN2(imgName, ":")[2], ok)

\* getLocalImageNameFromRef: name[:tag] of a docker reference (a reference
\* of transport docker always has a DockerReference)
getLocalImageNameFromRef(srcRef) ==
    IF srcRef.err # NoErr
      THEN [name |-> <<>>, err |-> "reference to image is empty"]
    ELSE IF srcRef.transport # DockerTransport
      THEN [name |-> <<>>, err |-> "transport is not supported yet"]
    ELSE [name |-> srcRef.domain \o <<"/">> \o srcRef.path
                     \o (IF srcRef.tag # <<>> THEN <<":">> \o srcRef.tag ELSE <<>>),
          err |-> NoErr]

\* opt.ToImage
ToImage == <<"toimage">>

\* destImage of the loop body: opt.ToImage for the archive transports, the
\* local name of the source reference otherwise
DestImage(t, srcRef) ==
    IF t \in {DockerArchiveTransport, OCIArchiveTransport}
      THEN [name |-> ToImage, err |-> NoErr]
      ELSE getLocalImageNameFromRef(srcRef)

\* ---------------------------------------------------------------- FindImage
FindLocal_NilOnMissing(localName, refOk, imgOk) ==
    IF localName = <<>>
      THEN NoReturn
    ELSE IF ~refOk
      THEN [NoReturn EXCEPT !.err = "error parsing reference to image"]
    ELSE IF ~imgOk
      THEN [NoReturn EXCEPT !.err = "failed to parse image in local store"]
    ELSE [NoReturn EXCEPT !.ref = localName, !.img = localName]

\* FindImage after the lookup: ParseStoreReference and GetStoreImage answer
\* refOk and imgOk
FindLocal(localName, refOk, imgOk) ==
    IF localName = <<>>
      THEN [NoReturn EXCEPT !.err = "not found in local store"]
    ELSE IF ~refOk
      THEN [NoReturn EXCEPT !.err = "error parsing reference to image"]
    ELSE IF ~imgOk
      THEN [NoReturn EXCEPT !.err = "failed to parse image in local store"]
    ELSE [NoReturn EXCEPT !.ref = localName, !.img = localName]

\* FindImage(store, image)
FindImage(st, image, refOk, imgOk) ==
    IF ReferenceParse(image).err # NoErr
      THEN [NoReturn EXCEPT !.err = "parse image failed"]
      ELSE FindLocal(tryResolveNameInStore(image, st), refOk, imgOk)

\* ------------------------------------------------ inputs of PullAndGetImageInfo
\* largest opt.ManifestIndex tried
MaxIndex == 1

\* opt.FromImage
FromImages ==
    {<<>>,
     <<"busybox">>,
     <<"UP">>,
     <<"docker.io", "/", "busybox">>,
     <<"reg.io", "/", "busybox">>,
     <<"docker", ":", "/", "/", "busybox">>,
     <<"docker", ":", "/", "/", "UP">>,
     <<"docker-archive", ":", "busybox">>,
     <<"oci-archive", ":", "busybox">>}

\* opt.SystemContext: configurations with a readable search list in which no
\* registry is blocked
PullConfigs ==
    {cfg \in Configs :
        /\ ~cfg.searchErr
        /\ \A r \in DOMAIN cfg.find : cfg.find[r] = "open"
        /\ \A k \in 1..Len(cfg.search) : cfg.search[k] # ""}

\* -------------------------------------------------------------- pullImage
PiReturn(ref, e) ==
    /\ piRet' = [ref |-> ref, err |-> e]
    /\ piPc' = "returned"

\* signature.DefaultPolicy(opt.sc)
PiPolicy ==
    /\ piPc = "policy"
    /\ \E ok \in BOOLEAN :
          IF ok
            THEN piPc' = "context" /\ UNCHANGED piRet
            ELSE PiReturn(<<>>, "error obtaining default signature policy")
    /\ UNCHANGED <<extVars, buildVars, resVars, pgPc, manifestIndex, idx, errPull, pgRet,
                   srcNames, lookups, pulls, outcomes, created, destroyed, copies>>

\* signature.NewPolicyContext(policy); on success the deferred Destroy is
\* registered
PiContext ==
    /\ piPc = "context"
    /\ \E ok \in BOOLEAN :
          IF ok
            THEN /\ created' = created + 1
                 /\ piPc' = "copy"
                 /\ UNCHANGED piRet
            ELSE /\ PiReturn(<<>>, "error creating new signature policy context")
                 /\ UNCHANGED created
    /\ UNCHANGED <<extVars, buildVars, resVars, pgPc, manifestIndex, idx, errPull, pgRet,
                   srcNames, lookups, pulls, outcomes, destroyed, copies>>

\* the store reference of the candidate at idx, opt.dstRef of pullImage
DstRef ==
    DestImage(transport,
              ParseImageName(SourceName(transport, candidates[idx], manifestIndex),
                             TRUE)).name

PiCopy_ReturnsOnError ==
    /\ piPc = "copy"
    /\ copies' = copies + 1
    /\ \E ok \in BOOLEAN :
          IF ok
            THEN piRet' = [ref |-> DstRef, err |-> NoErr] /\ piPc' = "deferred"
            ELSE PiReturn(<<>>, "copy failed")
    /\ UNCHANGED <<extVars, buildVars, resVars, pgPc, manifestIndex, idx, errPull, pgRet,
                   srcNames, lookups, pulls, outcomes, created, destroyed>>

PiCopy_RetriesOnce ==
    /\ piPc = "copy"
    /\ copies' = copies + 1
    /\ \E ok \in BOOLEAN :
          IF ok
            THEN piRet' = [ref |-> DstRef, err |-> NoErr] /\ piPc' = "deferred"
          ELSE IF copies = 0
            THEN piPc' = "copy" /\ UNCHANGED piRet
          ELSE piRet' = [ref |-> <<>>, err |-> "copy failed"] /\ piPc' = "deferred"
    /\ UNCHANGED <<extVars, buildVars, resVars, pgPc, manifestIndex, idx, errPull, pgRet,
                   srcNames, lookups, pulls, outcomes, created, destroyed>>

\* copy.Image: the return values are set, the deferred Destroy is still to run
PiCopy ==
    /\ piPc = "copy"
    /\ copies' = copies + 1
    /\ \E ok \in BOOLEAN :
          piRet' = IF ok THEN [ref |-> DstRef, err |-> NoErr]
                         ELSE [ref |-> <<>>, err |-> "copy failed"]
    /\ piPc' = "deferred"
    /\ UNCHANGED <<extVars, buildVars, resVars, pgPc, manifestIndex, idx, errPull, pgRet,
                   srcNames, lookups, pulls, outcomes, created, destroyed>>

\* the deferred policyContext.Destroy(): its error err2 is only logged
PiDestroy ==
    /\ piPc = "deferred"
    /\ destroyed' = destroyed + 1
    /\ \E err2 \in {NoErr, "destroy failed"} : piRet' = piRet
    /\ piPc' = "returned"
    /\ UNCHANGED <<extVars, buildVars, resVars, pgPc, manifestIndex, idx, errPull, pgRet,
                   srcNames, lookups, pulls, outcomes, created, copies>>

\* ---------------------------------------------------- PullAndGetImageInfo
PgReturn(r) ==
    /\ pgRet' = r
    /\ pgPc' = "returned"

PgResolved(r) ==
    /\ candidates' = r.candidates
    /\ transport' = r.transport
    /\ resolveErr' = r.err

\* PullAndGetImageInfo(opt) is called and calls ResolveName
PgCall ==
    /\ pgPc = "idle"
    /\ \E n \in FromImages, index \in 0..MaxIndex :
          /\ name' = n
          /\ manifestIndex' = index
          /\ \E st \in StoreVariants(n), cfg \in PullConfigs :
                /\ store' = st
                /\ sc' = cfg
                /\ PgResolved(ResolveName(n, cfg, st))
    /\ pgPc' = "resolved"
    /\ UNCHANGED <<extVars, buildVars, rnPc, consulted, firstCall, idx, errPull, pgRet,
                   srcNames, lookups, pulls, outcomes, piVars>>

\* if err != nil: error parsing reference to image
PgResolveError ==
    /\ pgPc = "resolved"
    /\ resolveErr # NoErr
    /\ PgReturn([NoReturn EXCEPT !.err = "error parsing reference to image"])
    /\ UNCHANGED <<extVars, buildVars, resVars, manifestIndex, idx, errPull, srcNames,
                   lookups, pulls, outcomes, piVars>>

PgNotOne_NoError ==
    /\ pgPc = "resolved"
    /\ resolveErr = NoErr
    /\ transport = ""
    /\ Len(candidates) # 1
    /\ PgReturn(NoReturn)
    /\ UNCHANGED <<extVars, buildVars, resVars, manifestIndex, idx, errPull, srcNames,
                   lookups, pulls, outcomes, piVars>>

\* transport == "" and len(candidates) != 1
PgNotOne ==
    /\ pgPc = "resolved"
    /\ resolveErr = NoErr
    /\ transport = ""
    /\ Len(candidates) # 1
    /\ PgReturn([NoReturn EXCEPT
                   !.err = "transport is empty and multi or no image be found"])
    /\ UNCHANGED <<extVars, buildVars, resVars, manifestIndex, idx, errPull, srcNames,
                   lookups, pulls, outcomes, piVars>>

PgFindImage_PullsWhenMissing ==
    /\ pgPc = "resolved"
    /\ resolveErr = NoErr
    /\ transport = ""
    /\ Len(candidates) = 1
    /\ \E refOk, imgOk \in BOOLEAN :
          IF FindImage(store, candidates[1], refOk, imgOk).err = NoErr
            THEN /\ PgReturn(FindImage(store, candidates[1], refOk, imgOk))
                 /\ UNCHANGED <<idx, errPull>>
            ELSE /\ pgPc' = "loop"
                 /\ idx' = 1
                 /\ errPull' = NoPullErr
                 /\ UNCHANGED pgRet
    /\ UNCHANGED <<extVars, buildVars, resVars, manifestIndex, srcNames, lookups, pulls,
                   outcomes, piVars>>

\* transport == "" and one candidate: FindImage(opt.Store, candidates[0])
PgFindImage ==
    /\ pgPc = "resolved"
    /\ resolveErr = NoErr
    /\ transport = ""
    /\ Len(candidates) = 1
    /\ \E refOk, imgOk \in BOOLEAN :
          PgReturn(FindImage(store, candidates[1], refOk, imgOk))
    /\ UNCHANGED <<extVars, buildVars, resVars, manifestIndex, idx, errPull, srcNames,
                   lookups, pulls, outcomes, piVars>>

\* var errPull error; the loop starts at the first candidate
PgLoop ==
    /\ pgPc = "resolved"
    /\ resolveErr = NoErr
    /\ transport # ""
    /\ pgPc' = "loop"
    /\ idx' = 1
    /\ errPull' = NoPullErr
    /\ UNCHANGED <<extVars, buildVars, resVars, manifestIndex, pgRet, srcNames, lookups,
                   pulls, outcomes, piVars>>

\* continue: the loop leaves the candidate at idx
PgContinue(how) ==
    /\ outcomes' = Append(outcomes, how)
    /\ idx' = idx + 1
    /\ pgPc' = "loop"
    /\ UNCHANGED pgRet

\* return from inside the loop with the image of the candidate at idx
PgUse(ref, how) ==
    /\ outcomes' = Append(outcomes, how)
    /\ PgReturn([NoReturn EXCEPT !.ref = ref, !.img = ref])
    /\ UNCHANGED idx

PgExamine_IgnoresFound(src, srcRef, refOk, found) ==
    /\ srcNames' = Append(srcNames, [cand |-> idx, name |-> src])
    /\ IF \/ srcRef.err # NoErr
          \/ DestImage(transport, srcRef).err # NoErr
          \/ ~refOk
         THEN /\ PgContinue("skipped")
              /\ UNCHANGED <<lookups, pulls, piVars>>
         ELSE /\ lookups' = Append(lookups, [cand |-> idx, found |-> found])
              /\ pulls' = Append(pulls, idx)
              /\ pgPc' = "pulling"
              /\ piPc' = "policy"
              /\ piRet' = NoPulled
              /\ created' = 0
              /\ destroyed' = 0
              /\ copies' = 0
              /\ UNCHANGED <<idx, pgRet, outcomes>>

\* the loop body up to the call of pullImage, for the source name src parsed
\* to srcRef; ParseStoreReference and the first GetStoreImage answer refOk
\* and found
PgExamine(src, srcRef, refOk, found) ==
    /\ srcNames' = Append(srcNames, [cand |-> idx, name |-> src])
    /\ IF \/ srcRef.err # NoErr
          \/ DestImage(transport, srcRef).err # NoErr
          \/ ~refOk
         THEN /\ PgContinue("skipped")
              /\ UNCHANGED <<lookups, pulls, piVars>>
       ELSE IF found
         THEN /\ lookups' = Append(lookups, [cand |-> idx, found |-> TRUE])
              /\ PgUse(DestImage(transport, srcRef).name, "local")
              /\ UNCHANGED <<pulls, piVars>>
       ELSE /\ lookups' = Append(lookups, [cand |-> idx, found |-> FALSE])
            /\ pulls' = Append(pulls, idx)
            /\ pgPc' = "pulling"
            /\ piPc' = "policy"
            /\ piRet' = NoPulled
            /\ created' = 0
            /\ destroyed' = 0
            /\ copies' = 0
            /\ UNCHANGED <<idx, pgRet, outcomes>>

\* one pass of the loop body for the candidate at idx, up to the return, the
\* continue or the call of pullImage
PgCandidate ==
    /\ pgPc = "loop"
    /\ idx <= Len(candidates)
    /\ \E parseOk, refOk, found \in BOOLEAN :
          PgExamine(SourceName(transport, candidates[idx], manifestIndex),
                    ParseImageName(SourceName(transport, candidates[idx],
                                              manifestIndex), parseOk),
                    refOk, found)
    /\ UNCHANGED <<extVars, buildVars, resVars, manifestIndex, errPull>>

PgPulled_KeepsFirstError ==
    /\ pgPc = "pulling"
    /\ piPc = "returned"
    /\ piPc' = "idle"
    /\ IF piRet.err # NoErr
         THEN /\ errPull' = IF errPull = NoPullErr
                              THEN [call |-> "pullImage", cand |-> idx,
                                    err |-> piRet.err]
                              ELSE errPull
              /\ PgContinue("pull failed")
              /\ UNCHANGED lookups
         ELSE /\ \E found \in BOOLEAN :
                    /\ lookups' = Append(lookups, [cand |-> idx, found |-> found])
                    /\ IF found
                         THEN PgUse(piRet.ref, "pulled") /\ UNCHANGED errPull
                         ELSE /\ errPull' = IF errPull = NoPullErr
                                              THEN [call |-> "GetStoreImage",
                                                    cand |-> idx,
                                                    err |-> "image not known"]
                                              ELSE errPull
                              /\ PgContinue("lookup failed")
    /\ UNCHANGED <<extVars, buildVars, resVars, manifestIndex, srcNames, pulls, piRet,
                   created, destroyed, copies>>

PgPulled_KeepsLooking ==
    /\ pgPc = "pulling"
    /\ piPc = "returned"
    /\ piPc' = "idle"
    /\ IF piRet.err # NoErr
         THEN /\ errPull' = [call |-> "pullImage", cand |-> idx, err |-> piRet.err]
              /\ PgContinue("pull failed")
              /\ UNCHANGED lookups
         ELSE /\ \E found \in BOOLEAN :
                    /\ lookups' = Append(lookups, [cand |-> idx, found |-> found])
                    /\ IF found
                         THEN /\ outcomes' = Append(outcomes, "pulled")
                              /\ pgRet' = [NoReturn EXCEPT !.ref = piRet.ref,
                                                           !.img = piRet.ref]
                              /\ idx' = idx + 1
                              /\ pgPc' = "loop"
                              /\ UNCHANGED errPull
                         ELSE /\ errPull' = [call |-> "GetStoreImage",
                                             cand |-> idx,
                                             err |-> "image not known"]
                              /\ PgContinue("lookup failed")
    /\ UNCHANGED <<extVars, buildVars, resVars, manifestIndex, srcNames, pulls, piRet,
                   created, destroyed, copies>>

\* pullImage has returned: errPull = err and continue, or GetStoreImage of
\* the pulled reference, which returns the image or sets errPull = err
PgPulled ==
    /\ pgPc = "pulling"
    /\ piPc = "returned"
    /\ piPc' = "idle"
    /\ IF piRet.err # NoErr
         THEN /\ errPull' = [call |-> "pullImage", cand |-> idx, err |-> piRet.err]
              /\ PgContinue("pull failed")
              /\ UNCHANGED lookups
         ELSE /\ \E found \in BOOLEAN :
                    /\ lookups' = Append(lookups, [cand |-> idx, found |-> found])
                    /\ IF found
                         THEN PgUse(piRet.ref, "pulled") /\ UNCHANGED errPull
                         ELSE /\ errPull' = [call |-> "GetStoreImage",
                                             cand |-> idx,
                                             err |-> "image not known"]
                              /\ PgContinue("lookup failed")
    /\ UNCHANGED <<extVars, buildVars, resVars, manifestIndex, srcNames, pulls, piRet,
                   created, destroyed, copies>>

\* the loop is over: failed to get the image in candidates: errPull
PgExhausted ==
    /\ pgPc = "loop"
    /\ idx > Len(candidates)
    /\ PgReturn([NoReturn EXCEPT !.err = "failed to get the image",
                                 !.listed = candidates, !.last = errPull])
    /\ UNCHANGED <<extVars, buildVars, resVars, manifestIndex, idx, errPull, srcNames,
                   lookups, pulls, outcomes, piVars>>

PullNext ==
    \/ PgCall
    \/ PgResolveError
    \/ PgNotOne
    \/ PgFindImage
    \/ PgLoop
    \/ PgCandidate
    \/ PiPolicy
    \/ PiContext
    \/ PiCopy
    \/ PiDestroy
    \/ PgPulled
    \/ PgExhausted

PullInit == Init /\ ~hasPipe

PullSpec == PullInit /\ [][PullNext]_vars

\* ------------------------------------------- properties of ResolveName
Consulted(stage) == \E i \in 1..Len(consulted) : consulted[i] = stage

StageOrder == <<"store", "transport", "dockerref", "registries">>

\* ResolveName has returned and the name was not found in the local store
ReturnedNotLocal ==
    /\ rnPc = "returned"
    /\ Consulted("store")
    /\ tryResolveNameInStore(name, store) = <<>>

\* C15: ResolveName("") returns no candidate, an empty transport and no
\* error, and has entered none of the stages (store, transports,
\* docker reference, registries).
C15_EmptyName ==
    (rnPc = "returned" /\ name = <<>>) =>
        /\ candidates = <<>>
        /\ transport = ""
        /\ resolveErr = NoErr
        /\ consulted = <<>>

C15_Witness == rnPc = "returned" /\ name = <<>> /\ candidates = <<>>

\* C16: when the store holds an image under name:latest, ResolveName returns
\* exactly that image as its only candidate, with an empty transport and no
\* error, enters no stage after the store lookup, and prefers that image to
\* one held under the bare name.
C16_LatestLookupWins ==
    (/\ name # <<>>
     /\ Consulted("store")
     /\ StoreImage(store, name \o <<":", DefaultTag>>) # <<>>) =>
        /\ rnPc = "returned"
        /\ candidates = <<StoreImage(store, name \o <<":", DefaultTag>>)>>
        /\ transport = ""
        /\ resolveErr = NoErr
        /\ consulted = <<"store">>

\* the store holds one image under name:latest and another under name
C16_Witness ==
    /\ rnPc = "returned"
    /\ StoreImage(store, name \o <<":", DefaultTag>>) = <<"id1">>
    /\ StoreImage(store, name) = <<"id2">>
    /\ candidates = << <<"id1">> >>

\* the transport of a name docker://X, docker-archive:P or oci-archive:P
\* with non-empty X or P, "" for a name of another form
PrefixTransport ==
    IF HasPrefix(name, <<"docker", ":", "/", "/">>) /\ Len(name) > 4
      THEN DockerTransport
    ELSE IF HasPrefix(name, <<"docker-archive", ":">>) /\ Len(name) > 2
      THEN DockerArchiveTransport
    ELSE IF HasPrefix(name, <<"oci-archive", ":">>) /\ Len(name) > 2
      THEN OCIArchiveTransport
    ELSE ""

\* the name without its transport prefix (and without the // of docker://)
PrefixRemoved ==
    IF PrefixTransport = DockerTransport
      THEN SubSeq(name, 5, Len(name))
      ELSE SubSeq(name, 3, Len(name))

\* C17 (original): a name docker://X, docker-archive:P or oci-archive:P that
\* is not in the store resolves to exactly one candidate, the name without
\* its prefix, tagged with the transport of the prefix.
C17_Original ==
    (ReturnedNotLocal /\ PrefixTransport # "") =>
        /\ candidates = <<PrefixRemoved>>
        /\ transport = PrefixTransport
        /\ resolveErr = NoErr

\* C17 (amended): such a name resolves to exactly one candidate tagged with
\* the transport of the prefix; the candidate is the name without its prefix
\* and, for the two archive transports, without leading and trailing white
\* space. When nothing but white space follows an archive prefix, the
\* transport stage yields nothing and ResolveName returns the parse error of
\* the docker-reference stage.
C17_TransportPrefixStripped ==
    (ReturnedNotLocal /\ PrefixTransport # "") =>
        LET dest == IF PrefixTransport = DockerTransport
                      THEN PrefixRemoved
                      ELSE TrimSpace(PrefixRemoved)
        IN  IF dest # <<>>
              THEN /\ candidates = <<dest>>
                   /\ transport = PrefixTransport
                   /\ resolveErr = NoErr
                   /\ consulted = <<"store", "transport">>
              ELSE /\ candidates = <<>>
                   /\ transport = ""
                   /\ resolveErr # NoErr
                   /\ consulted = <<"store", "transport", "dockerref">>

\* a docker://X name resolved to X
C17_Witness ==
    /\ ReturnedNotLocal
    /\ PrefixTransport = DockerTransport
    /\ transport = DockerTransport
    /\ candidates = <<SubSeq(name, 5, Len(name))>>

\* C18: when ResolveName enters the docker-reference stage with a name that
\* reference.ParseNormalizedNamed rejects, it returns that error with no
\* candidate and no transport, and never enters the registries stage.
C18_ParseFailureIsFatal ==
    (Consulted("dockerref") /\ ParseNormalizedNamed(name).err # NoErr) =>
        /\ rnPc = "returned"
        /\ resolveErr = ParseNormalizedNamed(name).err
        /\ candidates = <<>>
        /\ transport = ""
        /\ ~Consulted("registries")

\* both parse errors are returned by some call
C18_Witness ==
    /\ rnPc = "returned"
    /\ Consulted("dockerref")
    /\ resolveErr = ErrNameNotLowercase
    /\ candidates = <<>>

\* ResolveName has returned the result of the registries stage
ReturnedFromRegistries == rnPc = "returned" /\ Consulted("registries")

\* the registry a candidate of the registries stage was built from
RegistryOf(candidate) == candidate[1]

\* the registries of the candidates after the first one
FollowingRegistries == [i \in 1..(Len(candidates) - 1) |-> RegistryOf(candidates[i + 1])]

\* the configured search registries, in order, without those in skip
SearchRegistriesWithout(skip) ==
    LET Kept(registry) == FindRegistry(sc, registry) \notin skip /\ registry # ""
    IN  SelectSeq(sc.search, Kept)

\* candidate c is registry/name, or registry/library/name for a name without
\* "/" and a registry that has the default path prefix
BuiltFromName(c) ==
    \/ c = <<RegistryOf(c), "/">> \o name
    \/ /\ RegistryOf(c) \in DOMAIN DefaultRegistryPathPrefix
       /\ ~ContainsRune(name, "/")
       /\ c = <<RegistryOf(c), "/", DefaultRegistryPathPrefix[RegistryOf(c)], "/">> \o name

\* C19 (original): the registries stage returns a candidate built from
\* localhost first, then one per configured search registry in configured
\* order, none of them built from a registry marked blocked, all tagged
\* docker.
C19_Original ==
    ReturnedFromRegistries =>
        /\ transport = DockerTransport
        /\ Len(candidates) >= 1
        /\ RegistryOf(candidates[1]) = "localhost"
        /\ FollowingRegistries = SearchRegistriesWithout({"blocked", "err"})
        /\ \A i \in 1..Len(candidates) :
              FindRegistry(sc, RegistryOf(candidates[i])) # "blocked"

\* C19 (amended): the registries stage returns a candidate built from
\* localhost first, whether or not the configuration marks localhost
\* blocked, then one candidate per configured search registry, in configured
\* order, leaving out the registries marked blocked, those whose
\* configuration cannot be read and empty registry names; every candidate
\* ends with the name and all are tagged docker.
C19_RegistriesInOrder ==
    ReturnedFromRegistries =>
        /\ transport = DockerTransport
        /\ resolveErr = NoErr
        /\ Len(candidates) >= 1
        /\ RegistryOf(candidates[1]) = "localhost"
        /\ FollowingRegistries = SearchRegistriesWithout({"blocked", "err"})
        /\ \A i \in 1..Len(candidates) : BuiltFromName(candidates[i])

\* two registries are configured, the first one blocked: the candidates are
\* those of localhost and of the second registry
C19_Witness ==
    /\ ReturnedFromRegistries
    /\ Len(sc.search) = 2
    /\ FindRegistry(sc, sc.search[1]) = "blocked"
    /\ sc.search[2] = "docker.io"
    /\ Len(candidates) = 2
    /\ candidates[2] = <<"docker.io", "/", "library", "/">> \o name

\* the stage produced a result (or an error) for the name
Produced(stage) ==
    IF stage = "store" THEN tryResolveNameInStore(name, store) # <<>>
    ELSE IF stage = "transport"
      THEN /\ tryResolveNameWithTransport(name).dest # <<>>
           /\ tryResolveNameWithTransport(name).transport # ""
    ELSE IF stage = "dockerref"
      THEN \/ tryResolveNameWithDockerReference(name).err # NoErr
           \/ tryResolveNameWithDockerReference(name).dest # <<>>
    ELSE TRUE

\* C20: ResolveName enters its stages in the order store, transport, docker
\* reference, registries; it enters a stage only when every stage before it
\* produced nothing, and what it returns is the result of the last stage it
\* entered alone: one candidate from the store, the transport stage or the
\* docker-reference stage, or the list of the registries stage.
C20_FirstStageWins ==
    /\ consulted = SubSeq(StageOrder, 1, Len(consulted))
    /\ \A i \in 1..(Len(consulted) - 1) : ~Produced(consulted[i])
    /\ (rnPc = "returned" /\ consulted # <<>>) =>
          /\ Produced(consulted[Len(consulted)])
          /\ (~Consulted("registries") /\ resolveErr = NoErr) => Len(candidates) = 1
          /\ consulted = <<"store">> => transport = ""
          /\ Consulted("transport") =>
                \A i \in 1..Len(candidates) : \A im \in store : candidates[i] # <<im.ID>>

\* a transport-prefixed name that the store holds too resolves to the image
\* of the store
C20_Witness ==
    /\ rnPc = "returned"
    /\ Produced("store")
    /\ Produced("transport")
    /\ consulted = <<"store">>
    /\ transport = ""
    /\ Len(candidates) = 1

\* C22: a call that returns from the docker-reference stage without an error
\* returns exactly one candidate, the name as it was given, tagged docker.
C22_DockerReferenceResult ==
    (/\ rnPc = "returned"
     /\ consulted # <<>>
     /\ consulted[Len(consulted)] = "dockerref"
     /\ resolveErr = NoErr) =>
        /\ candidates = <<name>>
        /\ transport = DockerTransport

\* the call returned the short form of a default-registry name unchanged
C22_Witness ==
    /\ rnPc = "returned"
    /\ consulted # <<>>
    /\ consulted[Len(consulted)] = "dockerref"
    /\ resolveErr = NoErr
    /\ ParseNormalizedNamed(name).str # name
    /\ candidates = <<name>>

\* ------------------------------------- properties of PullAndGetImageInfo
\* pullImage was not called and nothing was handed to ParseImageName
NoPull ==
    /\ pulls = <<>>
    /\ srcNames = <<>>
    /\ lookups = <<>>
    /\ piPc = "idle"
    /\ copies = 0

\* C23: when ResolveName returns an empty transport and no candidate or
\* several, PullAndGetImageInfo never enters the candidate loop, calls no
\* pullImage and returns an error; so it does for an empty FromImage.
C23_NotOneCandidate ==
    /\ (/\ pgPc # "idle"
        /\ resolveErr = NoErr
        /\ transport = ""
        /\ Len(candidates) # 1) =>
           /\ pgPc \in {"resolved", "returned"}
           /\ NoPull
           /\ pgPc = "returned" => pgRet.err # NoErr
    /\ (pgPc = "returned" /\ name = <<>>) => pgRet.err # NoErr

\* the call for an empty FromImage has returned the error of line 130
C23_Witness ==
    /\ pgPc = "returned"
    /\ name = <<>>
    /\ transport = ""
    /\ candidates = <<>>
    /\ pgRet.err = "transport is empty and multi or no image be found"

\* the errors FindImage returns
FindImageErrors ==
    {"parse image failed", "not found in local store",
     "error parsing reference to image", "failed to parse image in local store"}

\* C24: when ResolveName returns one candidate with an empty transport, the
\* image comes from the local store: pullImage is never called, and the call
\* returns the reference and the image FindImage found for the candidate, or
\* the error of FindImage.
C24_LocalImageOnly ==
    (/\ pgPc # "idle"
     /\ resolveErr = NoErr
     /\ transport = ""
     /\ Len(candidates) = 1) =>
        /\ pgPc \in {"resolved", "returned"}
        /\ NoPull
        /\ pgPc = "returned" =>
              IF pgRet.err = NoErr
                THEN /\ StoreImage(store, candidates[1]) = candidates[1]
                     /\ pgRet.ref = candidates[1]
                     /\ pgRet.img = candidates[1]
                ELSE /\ pgRet.err \in FindImageErrors
                     /\ pgRet.ref = <<>>
                     /\ pgRet.img = <<>>

\* busybox is in the store as busybox:latest and the call returned it
C24_Witness ==
    /\ pgPc = "returned"
    /\ name = <<"busybox">>
    /\ StoreImage(store, <<"busybox", ":", DefaultTag>>) = <<"id1">>
    /\ pgRet.err = NoErr
    /\ pgRet.ref = <<"id1">>

\* the k-th store lookup of the loop is the first one for its candidate: the
\* lookup of the destination image before any pull
BeforePull(k) ==
    \A j \in 1..(k - 1) : lookups[j].cand # lookups[k].cand

\* C25: in the candidate loop, when the lookup of a candidate's destination
\* image finds it in the store, the call returns that image at once:
\* pullImage is not called for the candidate and nothing follows the lookup.
C25_LocalHitReturns ==
    \A k \in 1..Len(lookups) :
        (lookups[k].found /\ BeforePull(k)) =>
            /\ pgPc = "returned"
            /\ k = Len(lookups)
            /\ idx = lookups[k].cand
            /\ Len(srcNames) = idx
            /\ pgRet.err = NoErr
            /\ pgRet.ref = DstRef
            /\ \A p \in 1..Len(pulls) : pulls[p] # lookups[k].cand
            /\ piPc = "idle"

\* the first candidate failed to pull and the second was found in the store
C25_Witness ==
    /\ pgPc = "returned"
    /\ outcomes = <<"pull failed", "local">>
    /\ pulls = <<1>>
    /\ pgRet.ref = <<"reg.io", "/", "busybox", ":", DefaultTag>>

\* the ways the loop leaves a candidate it could not use
Failures == {"skipped", "pull failed", "lookup failed"}

\* C26: the loop examines the candidates in list order, one after the other:
\* a candidate is parsed only when every candidate before it has failed, and
\* once a candidate was found or pulled the call has returned it and no
\* later candidate was parsed, looked up or pulled.
C26_FirstUsableInOrder ==
    /\ Len(outcomes) <= Len(srcNames)
    /\ Len(srcNames) <= Len(candidates)
    /\ \A j \in 1..Len(srcNames) :
          /\ srcNames[j].cand = j
          /\ srcNames[j].name = SourceName(transport, candidates[j], manifestIndex)
          /\ \A i \in 1..(j - 1) : i <= Len(outcomes) /\ outcomes[i] \in Failures
    /\ \A k \in 1..Len(lookups) :
          /\ lookups[k].cand <= Len(srcNames)
          /\ \A j \in 1..(k - 1) : lookups[j].cand <= lookups[k].cand
    /\ \A p \in 1..Len(pulls) :
          /\ pulls[p] <= Len(srcNames)
          /\ \A q \in 1..(p - 1) : pulls[q] < pulls[p]
    /\ \A j \in 1..Len(outcomes) :
          outcomes[j] \notin Failures =>
              /\ pgPc = "returned"
              /\ pgRet.err = NoErr
              /\ j = Len(outcomes)
              /\ j = Len(srcNames)

\* of three candidates the first failed, the second was pulled and returned,
\* the third was never touched
C26_Witness ==
    /\ pgPc = "returned"
    /\ Len(candidates) = 3
    /\ outcomes = <<"lookup failed", "pulled">>
    /\ Len(srcNames) = 2
    /\ pulls = <<1, 2>>

\* the call has returned the error of line 211
Exhausted == pgPc = "returned" /\ pgRet.err = "failed to get the image"

\* the position of the last candidate left as how, 0 when there is none
LastLeft(how) ==
    IF \E j \in 1..Len(outcomes) : outcomes[j] \in how
      THEN CHOOSE j \in 1..Len(outcomes) :
              /\ outcomes[j] \in how
              /\ \A i \in (j + 1)..Len(outcomes) : outcomes[i] \notin how
      ELSE 0

\* C27 as stated: the aggregated error lists all candidates and carries the
\* error pullImage returned for the last candidate whose pull failed.
C27_Original ==
    (Exhausted /\ LastLeft({"pull failed"}) # 0) =>
        /\ pgRet.listed = candidates
        /\ pgRet.last.call = "pullImage"
        /\ pgRet.last.cand = LastLeft({"pull failed"})

\* C27: when every candidate failed, the one error returned lists all the
\* candidates and carries the error of the last candidate pullImage was
\* called for: the error of pullImage, or the error of the store lookup that
\* followed a successful pull; candidates skipped afterwards leave it as it
\* is, and it is nil when pullImage was called for no candidate.
C27_LastPullError ==
    Exhausted =>
        /\ pgRet.listed = candidates
        /\ Len(outcomes) = Len(candidates)
        /\ \A j \in 1..Len(outcomes) : outcomes[j] \in Failures
        /\ pgRet.last.cand = LastLeft({"pull failed", "lookup failed"})
        /\ pgRet.last.cand = (IF pulls = <<>> THEN 0 ELSE pulls[Len(pulls)])
        /\ pgRet.last.cand = 0 => pgRet.last = NoPullErr
        /\ pgRet.last.cand # 0 =>
              /\ outcomes[pgRet.last.cand] = "pull failed" =>
                    /\ pgRet.last.call = "pullImage"
                    /\ pgRet.last.err \in
                          {"error obtaining default signature policy",
                           "error creating new signature policy context",
                           "copy failed"}
              /\ outcomes[pgRet.last.cand] = "lookup failed" =>
                    /\ pgRet.last.call = "GetStoreImage"
                    /\ pgRet.last.err = "image not known"

\* the pull of the first candidate failed, the image pulled for the second
\* was not found in the store, the third was skipped: the error is the second's
C27_Witness ==
    /\ Exhausted
    /\ outcomes = <<"pull failed", "lookup failed", "skipped">>
    /\ pgRet.last.cand = 2
    /\ pgRet.last.call = "GetStoreImage"

\* the source name n ends with the selector of opt.ManifestIndex
EndsWithSelector(n) ==
    /\ Len(n) >= 3
    /\ SubSeq(n, Len(n) - 2, Len(n)) = <<":", "@", Itoa(manifestIndex)>>

\* C28 as stated: the source name of a candidate ends with the selector of
\* opt.ManifestIndex for docker-archive and for oci-archive, and does not
\* for docker.
C28_Original ==
    \A j \in 1..Len(srcNames) :
        EndsWithSelector(srcNames[j].name)
            <=> transport \in {DockerArchiveTransport, OCIArchiveTransport}

\* C28: the source name of a candidate is docker-archive:candidate:@index,
\* with index opt.ManifestIndex, for docker-archive only; it is
\* oci-archive:candidate for oci-archive and docker://candidate for docker,
\* both without a selector.
C28_SelectorForDockerArchive ==
    \A j \in 1..Len(srcNames) :
        /\ transport = DockerArchiveTransport =>
              srcNames[j].name = <<"docker-archive", ":">> \o candidates[j]
                                    \o <<":", "@", Itoa(manifestIndex)>>
        /\ transport = OCIArchiveTransport =>
              srcNames[j].name = <<"oci-archive", ":">> \o candidates[j]
        /\ transport = DockerTransport =>
              srcNames[j].name = <<"docker", ":", "/", "/">> \o candidates[j]
        /\ EndsWithSelector(srcNames[j].name) <=> transport = DockerArchiveTransport

\* an oci-archive candidate was parsed, with manifest index 1, under its
\* plain name
C28_Witness ==
    /\ transport = OCIArchiveTransport
    /\ manifestIndex = 1
    /\ srcNames = <<[cand |-> 1, name |-> <<"oci-archive", ":", "busybox">>]>>

\* C29: a call of pullImage that created a policy context has destroyed it
\* exactly once when it returns, after a copy that succeeded as after one
\* that failed, a call that created none destroys none, and the step that
\* destroys the context leaves the values pullImage returns as they are.
C29_ContextDestroyedOnce ==
    /\ [](/\ created <= 1
          /\ destroyed <= created
          /\ piPc \in {"copy", "deferred"} => created = 1 /\ destroyed = 0
          /\ piPc = "returned" => destroyed = created
          /\ (piPc = "returned" /\ copies = 1) => created = 1)
    /\ [][piPc = "deferred" => piRet' = piRet]_vars

\* pullImage has returned the error of a failed copy, its context destroyed
C29_Witness ==
    /\ piPc = "returned"
    /\ piRet.err = "copy failed"
    /\ created = 1
    /\ destroyed = 1

\* C30: a call of pullImage copies at most once, and a failed copy makes it
\* return the copy's error, which PullAndGetImageInfo records; pullImage is
\* called at most once for a candidate, so that a call with one candidate
\* whose pull fails has made exactly one attempt.
C30_NoRetry ==
    /\ copies <= 1
    /\ (piPc \in {"deferred", "returned"} /\ piRet.err = "copy failed") => copies = 1
    /\ Len(pulls) <= Len(candidates)
    /\ \A p, q \in 1..Len(pulls) : p # q => pulls[p] # pulls[q]
    /\ \A j \in 1..Len(outcomes) :
          outcomes[j] \in {"pull failed", "lookup failed", "pulled"} =>
              \E p \in 1..Len(pulls) : pulls[p] = j
    /\ (Exhausted /\ Len(candidates) = 1 /\ outcomes = <<"pull failed">>) =>
          /\ pulls = <<1>>
          /\ pgRet.last = [call |-> "pullImage", cand |-> 1, err |-> piRet.err]

\* the only candidate failed in copy.Image and the call returned that error
C30_Witness ==
    /\ Exhausted
    /\ Len(candidates) = 1
    /\ outcomes = <<"pull failed">>
    /\ pulls = <<1>>
    /\ copies = 1
    /\ pgRet.last.err = "copy failed"

\* ==================================================== instantiatingImage
\* largest number of instances in a manifest list
MaxInstances == 2

DockerV2ListMediaType == "application/vnd.docker.distribution.manifest.list.v2+json"
OCI1ImageIndex == "application/vnd.oci.image.index.v1+json"
DockerV2Schema2MediaType == "application/vnd.docker.distribution.manifest.v2+json"
OCI1Manifest == "application/vnd.oci.image.manifest.v1+json"

MediaTypes ==
    {DockerV2ListMediaType, OCI1ImageIndex, DockerV2Schema2MediaType, OCI1Manifest}

\* manifest.MIMETypeIsMultiImage
MIMETypeIsMultiImage(t) == t \in {DockerV2ListMediaType, OCI1ImageIndex}

Platforms == {"linux/amd64", "linux/arm64"}

\* the manifests GetManifest may return under media type t: for a list type a
\* list of instances, each with the digest of its position and a platform,
\* or bytes that are no list; for a single-image type one manifest
Blobs(t) ==
    IF MIMETypeIsMultiImage(t)
      THEN UNION {{[list |-> TRUE,
                    manifests |-> [k \in 1..n |-> [digest |-> <<"sha256", k>>,
                                                    platform |-> ps[k]]]] :
                      ps \in [1..n -> Platforms]} : n \in 0..MaxInstances}
           \cup {NoBlob}
      ELSE {NoBlob}

\* manifest.ListFromBlob: fails on bytes that are no list
ListFromBlob(b, t) ==
    IF b.list THEN [manifests |-> b.manifests, err |-> NoErr]
              ELSE [manifests |-> <<>>, err |-> "not a manifest list"]

\* list.ChooseInstance(sc): the first instance of the list made for the
\* runtime platform p, an error when the list has none
ChooseInstance(manifests, p) ==
    IF \E k \in 1..Len(manifests) : manifests[k].platform = p
      THEN [digest |-> manifests[CHOOSE k \in 1..Len(manifests) :
                                    /\ manifests[k].platform = p
                                    /\ \A j \in 1..(k - 1) :
                                          manifests[j].platform # p].digest,
            err |-> NoErr]
      ELSE [digest |-> <<>>, err |-> "no image found in manifest list"]

IiReturn(img, e) ==
    /\ iiRet' = [img |-> img, err |-> e]

\* instantiatingImage(ctx, sc, ref) is called: ref.NewImageSource
IiCall ==
    /\ iiPc = "idle"
    /\ \E t \in MediaTypes, p \in Platforms :
          /\ mType' = t
          /\ platform' = p
          /\ \E b \in Blobs(t) : blob' = b
    /\ \E ok \in BOOLEAN :
          IF ok
            THEN iiPc' = "manifest" /\ UNCHANGED iiRet
            ELSE iiPc' = "returned" /\ IiReturn(<<>>, "instantiating image failed")
    /\ UNCHANGED <<notIiVars, instanceDigest, closed>>

\* imgSource.GetManifest(ctx, nil)
IiGetManifest ==
    /\ iiPc = "manifest"
    /\ \E ok \in BOOLEAN :
          IF ok
            THEN iiPc' = "select" /\ UNCHANGED iiRet
            ELSE iiPc' = "close" /\ IiReturn(<<>>, "loading image manifest failed")
    /\ UNCHANGED <<notIiVars, mType, blob, platform, instanceDigest, closed>>

IiChoose_FallsBack(list) ==
    IF list.err # NoErr
      THEN /\ iiPc' = "close"
           /\ IiReturn(<<>>, "parsing image manifest as list failed")
           /\ UNCHANGED instanceDigest
    ELSE IF ChooseInstance(list.manifests, platform).err # NoErr
            /\ list.manifests = <<>>
      THEN /\ iiPc' = "close"
           /\ IiReturn(<<>>, "finding the image in manifest list failed")
           /\ UNCHANGED instanceDigest
    ELSE /\ iiPc' = "instantiate"
         /\ instanceDigest' =
               IF ChooseInstance(list.manifests, platform).err # NoErr
                 THEN list.manifests[1].digest
                 ELSE ChooseInstance(list.manifests, platform).digest
         /\ UNCHANGED iiRet

\* the instance of a list: ListFromBlob, then ChooseInstance
IiChoose(list) ==
    IF list.err # NoErr
      THEN /\ iiPc' = "close"
           /\ IiReturn(<<>>, "parsing image manifest as list failed")
           /\ UNCHANGED instanceDigest
    ELSE IF ChooseInstance(list.manifests, platform).err # NoErr
      THEN /\ iiPc' = "close"
           /\ IiReturn(<<>>, "finding the image in manifest list failed")
           /\ UNCHANGED instanceDigest
    ELSE /\ iiPc' = "instantiate"
         /\ instanceDigest' = ChooseInstance(list.manifests, platform).digest
         /\ UNCHANGED iiRet

\* if manifest.MIMETypeIsMultiImage(mType) { ... instanceDigest = &instance }
IiSelect ==
    /\ iiPc = "select"
    /\ IF MIMETypeIsMultiImage(mType)
         THEN IiChoose(ListFromBlob(blob, mType))
         ELSE /\ iiPc' = "instantiate"
              /\ UNCHANGED <<instanceDigest, iiRet>>
    /\ UNCHANGED <<notIiVars, mType, blob, platform, closed>>

\* image.FromUnparsedImage(ctx, sc, image.UnparsedInstance(imgSource,
\* instanceDigest)): the image of the instance, of the manifest itself when
\* instanceDigest is nil
IiFromUnparsed ==
    /\ iiPc = "instantiate"
    /\ \E ok \in BOOLEAN :
          IF ok
            THEN IiReturn(IF instanceDigest = <<>> THEN <<"manifest">>
                                                  ELSE instanceDigest, NoErr)
            ELSE IiReturn(<<>>, "instantiating image with instance failed")
    /\ iiPc' = "close"
    /\ UNCHANGED <<notIiVars, mType, blob, platform, instanceDigest, closed>>

\* the deferred imgSource.Close(): its error is only logged
IiClose ==
    /\ iiPc = "close"
    /\ closed' = closed + 1
    /\ iiPc' = "returned"
    /\ UNCHANGED <<notIiVars, mType, blob, platform, instanceDigest, iiRet>>

InstNext ==
    \/ IiCall
    \/ IiGetManifest
    \/ IiSelect
    \/ IiFromUnparsed
    \/ IiClose

InstInit == Init /\ ~hasPipe

InstSpec == InstInit /\ [][InstNext]_vars

\* the manifest list has an instance for the runtime platform
HasInstance ==
    /\ blob.list
    /\ \E k \in 1..Len(blob.manifests) : blob.manifests[k].platform = platform

\* C31: under a multi-image media type, instantiatingImage returns an error
\* and no image when the manifest does not parse as a list or the list has no
\* instance for the runtime platform, and any instance it selects is one of
\* the list made for that platform; under a single-image media type it
\* selects no instance and the image is that of the manifest itself.
C31_NoArbitraryInstance ==
    /\ instanceDigest # <<>> =>
          /\ MIMETypeIsMultiImage(mType)
          /\ \E k \in 1..Len(blob.manifests) :
                /\ blob.manifests[k].digest = instanceDigest
                /\ blob.manifests[k].platform = platform
    /\ iiPc = "returned" =>
          /\ (MIMETypeIsMultiImage(mType) /\ ~HasInstance) =>
                /\ iiRet.err # NoErr
                /\ iiRet.img = <<>>
          /\ (MIMETypeIsMultiImage(mType) /\ iiRet.err = NoErr) =>
                iiRet.img = instanceDigest /\ instanceDigest # <<>>
          /\ (~MIMETypeIsMultiImage(mType) /\ iiRet.err = NoErr) =>
                iiRet.img = <<"manifest">>
          /\ iiRet.err # NoErr => iiRet.img = <<>>

\* a list of two instances, none for the runtime platform: the call failed
C31_Witness ==
    /\ iiPc = "returned"
    /\ MIMETypeIsMultiImage(mType)
    /\ blob.list
    /\ Len(blob.manifests) = 2
    /\ ~HasInstance
    /\ iiRet.err = "finding the image in manifest list failed"
    /\ closed = 1

\* ======================================================== NewPipeWrapper
\* NewPipeWrapper calls made at most
MaxPipeCalls == 3

\* run directories of builds and exporter types
RunDirs == {<<"run", "/", "b1">>, <<"run", "/", "b2">>}
Expts == {"docker-archive", "oci-archive"}

\* filepath.Join(runDir, fmt.Sprintf("exporter-%s", expt))
PipeFileOf(runDir, expt) == runDir \o <<"/", "exporter-", expt>>

\* PipeWrapper{PipeFile: pipeFile}
NewWrapper(pipeFile) == [PipeFile |-> pipeFile, Done |-> FALSE, Err |-> NoErr]

PwMake_Overwrites(pipeFile, mkfifoOk) ==
    /\ pwCalls' = pwCalls + 1
    /\ IF ~mkfifoOk
         THEN /\ pwRet' = [path |-> pipeFile, wrapper |-> NoWrapper,
                           err |-> "mkfifo failed"]
              /\ UNCHANGED <<files, wrappers>>
         ELSE /\ files' = files \cup {pipeFile}
              /\ wrappers' = Append(wrappers, [w |-> NewWrapper(pipeFile), live |-> TRUE])
              /\ pwRet' = [path |-> pipeFile, wrapper |-> NewWrapper(pipeFile),
                           err |-> NoErr]

\* the body of NewPipeWrapper: syscall.Mkfifo fails when a file exists at
\* pipeFile (EEXIST) and when the system refuses (mkfifoOk false)
PwMake(pipeFile, mkfifoOk) ==
    /\ pwCalls' = pwCalls + 1
    /\ IF pipeFile \in files
         THEN /\ pwRet' = [path |-> pipeFile, wrapper |-> NoWrapper,
                           err |-> "file exists"]
              /\ UNCHANGED <<files, wrappers>>
       ELSE IF ~mkfifoOk
         THEN /\ pwRet' = [path |-> pipeFile, wrapper |-> NoWrapper,
                           err |-> "mkfifo failed"]
              /\ UNCHANGED <<files, wrappers>>
       ELSE /\ files' = files \cup {pipeFile}
            /\ wrappers' = Append(wrappers, [w |-> NewWrapper(pipeFile), live |-> TRUE])
            /\ pwRet' = [path |-> pipeFile, wrapper |-> NewWrapper(pipeFile),
                         err |-> NoErr]

\* NewPipeWrapper(runDir, expt)
PwNew ==
    /\ pwCalls < MaxPipeCalls
    /\ \E runDir \in RunDirs, expt \in Expts, mkfifoOk \in BOOLEAN :
          PwMake(PipeFileOf(runDir, expt), mkfifoOk)
    /\ UNCHANGED notPwVars

\* (p *PipeWrapper) Close() on a wrapper its session holds
PwClose ==
    /\ \E k \in 1..Len(wrappers) :
          /\ wrappers[k].live
          /\ ~wrappers[k].w.Done
          /\ wrappers' = [wrappers EXCEPT ![k].w.Done = TRUE]
    /\ UNCHANGED <<notPwVars, files, pwRet, pwCalls>>

\* the session of a wrapper ends: the pipe file is removed and the wrapper
\* is dropped
PwRelease ==
    /\ \E k \in 1..Len(wrappers) :
          /\ wrappers[k].live
          /\ wrappers' = [wrappers EXCEPT ![k].live = FALSE]
          /\ files' = files \ {wrappers[k].w.PipeFile}
    /\ UNCHANGED <<notPwVars, pwRet, pwCalls>>

PipeNext ==
    \/ PwNew
    \/ PwClose
    \/ PwRelease

PipeInit == Init /\ ~hasPipe

PipeSpec == PipeInit /\ [][PipeNext]_vars

\* C32: NewPipeWrapper returns an error and no wrapper, and creates nothing,
\* when a file exists at runDir/exporter-<expt>; so no two wrappers held by
\* sessions name the same pipe file; and a wrapper it returns names the pipe
\* file it created and has Done = false and Err = nil.
C32_PipePathExclusive ==
    /\ [](/\ \A i, j \in 1..Len(wrappers) :
                (/\ i # j
                 /\ wrappers[i].live
                 /\ wrappers[j].live) =>
                    wrappers[i].w.PipeFile # wrappers[j].w.PipeFile
          /\ \A i \in 1..Len(wrappers) :
                wrappers[i].live => wrappers[i].w.PipeFile \in files
          /\ pwRet.err # NoErr => pwRet.wrapper = NoWrapper
          /\ (pwCalls > 0 /\ pwRet.err = NoErr) =>
                /\ pwRet.wrapper.PipeFile = pwRet.path
                /\ ~pwRet.wrapper.Done
                /\ pwRet.wrapper.Err = NoErr)
    /\ [][(pwCalls' # pwCalls /\ pwRet'.path \in files) =>
              /\ pwRet'.err # NoErr
              /\ pwRet'.wrapper = NoWrapper
              /\ files' = files
              /\ wrappers' = wrappers]_vars

\* a second call for the pipe file of a wrapper still held has failed
C32_Witness ==
    /\ pwRet.err = "file exists"
    /\ \E k \in 1..Len(wrappers) :
          wrappers[k].live /\ wrappers[k].w.PipeFile = pwRet.path

\* ============================================================== FindImage
\* image names FindImage may be called with
FindNames ==
    {<<"image">>, <<"image", ":", DefaultTag>>, <<"image2", ":", "test">>,
     <<"noexist">>, <<"UP">>, <<"id1">>}

\* what the local store may hold
FindStores ==
    SUBSET {[key |-> <<"image", ":", DefaultTag>>, ID |-> "id1"],
            [key |-> <<"image2", ":", "test">>, ID |-> "id2"]}

\* FindImage(store, image) is called; ParseStoreReference and GetStoreImage
\* will answer fiRefOk and fiImgOk if the call gets to them
FiCall ==
    /\ fiPc = "idle"
    /\ \E st \in FindStores : fiStore' = st
    /\ \E n \in FindNames : fiImage' = n
    /\ \E refOk, imgOk \in BOOLEAN : fiRefOk' = refOk /\ fiImgOk' = imgOk
    /\ fiPc' = "called"
    /\ UNCHANGED <<notFiVars, fiRet>>

\* FindImage returns
FiReturn ==
    /\ fiPc = "called"
    /\ fiRet' = FindImage(fiStore, fiImage, fiRefOk, fiImgOk)
    /\ fiPc' = "returned"
    /\ UNCHANGED <<notFiVars, fiStore, fiImage, fiRefOk, fiImgOk>>

FindNext ==
    \/ FiCall
    \/ FiReturn

FindInit == Init /\ ~hasPipe

FindSpec == FindInit /\ [][FindNext]_vars

\* the store holds no image under n:latest or under n
Missing(n) ==
    /\ StoreImage(fiStore, n \o <<":", DefaultTag>>) = <<>>
    /\ StoreImage(fiStore, n) = <<>>

PipeUntouched ==
    /\ ~Done
    /\ sentAtClose = -1
    /\ wfRes = "none"
    /\ wCounter = 0 /\ rCounter = 0
    /\ fifoBuf = <<>>
    /\ pdPc \in {"idle", "start", "build", "after", "returned"}

\* C34: when OutputPipeWrapper() is nil the bridge-reader task returns at
\* once with no error, no data chunk is ever sent, a failure of
\* builder.Build never makes the producer close or write the pipe, and the
\* only message of a successful build is the final image-id message.
C34_NoPipeNoData ==
    /\ [](~hasPipe =>
            /\ rdPc \in {"idle", "start", "returned"}
            /\ rdRet = NoErr
            /\ PipeUntouched
            /\ sent \in {<<>>, <<FinalMsg(BuiltID)>>}
            /\ via = "final" => sent = <<FinalMsg(BuiltID)>>
            /\ berr # NoErr => sent = <<>>)
    /\ [][(~hasPipe /\ rdPc = "start" /\ rdPc' # rdPc) =>
             rdPc' = "returned" /\ rdRet' = NoErr /\ sent' = sent]_vars

\* a build without a pipe failed in builder.Build and Build returned its error
C34_Witness ==
    /\ ~hasPipe
    /\ supPc = "returned"
    /\ rdPc = "returned"
    /\ berr = BuildErr
    /\ result = BuildErr

\* =================================================== exporter.Export, export
\* largest manifest cp.Image may return, in bytes
MaxManifest == 2

DestroyErr == "destroy policy context failed"
CopyErr == "copying layers and metadata failed"
DigestErr == "computing digest of manifest of new image failed"
WithDigestErr == "generating canonical reference failed"
ParseExporterErr == "parse exporter failed"
PolicyErr == "new policy context failed"
ExportFailed == "export image failed"

\* destSpec arguments of Export
DestSpecs == {<<>>, <<"docker-archive", ":", "out.tar">>, <<"docker", ":", "//", "img">>}

\* manifests cp.Image may return
Manifests == UNION {[1..n -> {0, 1}] : n \in 1..MaxManifest}

\* manifest.Digest of a manifest
Digest(m) == <<"sha256", m>>

\* reference.WithDigest(name, dgst)
WithDigest(nm, dgst) == nm \o <<"@">> \o dgst

\* Export(src, destSpec, iopts, localStore) is called
ExportCall ==
    /\ exPc = "idle"
    /\ \E d \in DestSpecs :
          /\ exDest' = d
          /\ IF d = <<>>
               THEN exPc' = "returned"
               ELSE exPc' = "parse"
    /\ exportRet' = NoErr
    /\ UNCHANGED <<notExVars, exErr, exManifest, exRet, exDestroyErr, exDestroys>>

\* epter, err := parseExporter(src, destSpec, localStore)
ExportParse(ok) ==
    /\ exPc = "parse"
    /\ IF ok
         THEN exPc' = "policy" /\ UNCHANGED exportRet
         ELSE exPc' = "returned" /\ exportRet' = ParseExporterErr
    /\ UNCHANGED <<notExVars, exDest, exErr, exManifest, exRet, exDestroyErr, exDestroys>>

\* policyContext, err := newPolicyContext(iopts.SystemContext); on success
\* export is entered and registers its deferred function
ExportPolicy(ok) ==
    /\ exPc = "policy"
    /\ IF ok
         THEN exPc' = "copy" /\ UNCHANGED exportRet
         ELSE exPc' = "returned" /\ exportRet' = PolicyErr
    /\ UNCHANGED <<notExVars, exDest, exErr, exManifest, exRet, exDestroyErr, exDestroys>>

\* manifestBytes, err = cp.Image(...); on error return nil, "", Wrap(err)
ExCopy(ok, m) ==
    /\ exPc = "copy"
    /\ IF ok
         THEN /\ exManifest' = m
              /\ exPc' = "digest"
              /\ UNCHANGED <<exErr, exRet>>
         ELSE /\ exErr' = CopyErr
              /\ exRet' = [ref |-> <<>>, digest |-> <<>>, err |-> CopyErr]
              /\ exPc' = "defer"
              /\ UNCHANGED exManifest
    /\ UNCHANGED <<notExVars, exDest, exDestroyErr, exDestroys, exportRet>>

\* manifestDigest, err = manifest.Digest(manifestBytes); on error return
\* nil, "", Wrap(err); then, if destRef has a docker reference,
\* ref, err = reference.WithDigest(name, manifestDigest), on error return
\* nil, "", Wrapf(err); at last return ref, manifestDigest, nil
ExDigest(digestOk, hasName, withOk) ==
    /\ exPc = "digest"
    /\ IF ~digestOk
         THEN /\ exErr' = DigestErr
              /\ exRet' = [ref |-> <<>>, digest |-> <<>>, err |-> DigestErr]
         ELSE IF hasName /\ ~withOk
         THEN /\ exErr' = WithDigestErr
              /\ exRet' = [ref |-> <<>>, digest |-> <<>>, err |-> WithDigestErr]
         ELSE /\ exErr' = NoErr
              /\ exRet' = [ref |-> IF hasName
                                     THEN WithDigest(<<"img">>, Digest(exManifest))
                                     ELSE <<>>,
                           digest |-> Digest(exManifest),
                           err |-> NoErr]
    /\ exPc' = "defer"
    /\ UNCHANGED <<notExVars, exDest, exManifest, exDestroyErr, exDestroys, exportRet>>

\* the deferred function of export: destroyErr := policyContext.Destroy();
\* it assigns the local variable err, after the values to return were set
\* (the results of export are unnamed)
ExDestroy(ok) ==
    /\ exPc = "defer"
    /\ exDestroyErr' = IF ok THEN NoErr ELSE DestroyErr
    /\ exDestroys' = exDestroys + 1
    /\ exErr' = IF exErr = NoErr
                  THEN (IF ok THEN NoErr ELSE DestroyErr)
                  ELSE exErr
    /\ exPc' = "exported"
    /\ UNCHANGED <<notExVars, exDest, exManifest, exRet, exportRet>>

\* Export: if err != nil, return Errorf("export image ... failed"); else nil
ExportReturn ==
    /\ exPc = "exported"
    /\ exportRet' = IF exRet.err # NoErr THEN ExportFailed ELSE NoErr
    /\ exPc' = "returned"
    /\ UNCHANGED <<notExVars, exDest, exErr, exManifest, exRet, exDestroyErr, exDestroys>>

ExportNext ==
    \/ ExportCall
    \/ \E ok \in BOOLEAN : ExportParse(ok)
    \/ \E ok \in BOOLEAN : ExportPolicy(ok)
    \/ \E ok \in BOOLEAN, m \in Manifests : ExCopy(ok, m)
    \/ \E digestOk, hasName, withOk \in BOOLEAN : ExDigest(digestOk, hasName, withOk)
    \/ \E ok \in BOOLEAN : ExDestroy(ok)
    \/ ExportReturn

ExportInit == Init /\ ~hasPipe

ExportSpec == ExportInit /\ [][ExportNext]_vars

\* C35: export returns a non-nil error whenever destroying the policy
\* context failed, also when the copy and the digest succeeded.
C35_Original ==
    (exPc \in {"exported", "returned"} /\ exDestroyErr # NoErr) =>
        exRet.err # NoErr

\* ======================================================= exporter.ArchiveRecv
\* largest number of chunks the channel delivers
MaxChunks == 3

CreateErr == "create failed"
ChmodErr == "chmod failed"
FlushErr == "flush buffer failed"
LoadErr == "load image to isulad failed"

\* ArchiveRecv(ctx, dest, isIsulad, fc) is called: fo, err := os.Create(dest);
\* on error return err (the deferred function is not registered yet)
ArCall(isIsulad, n, exists, createOk) ==
    /\ arPc = "idle"
    /\ arIsIsulad' = isIsulad
    /\ arChunks' = n
    /\ arTotal' = n
    /\ IF createOk
         THEN /\ arFile' = TRUE
              /\ arErr' = NoErr
              /\ arRet' = NoErr
              /\ arPc' = "chmod"
         ELSE /\ arFile' = exists
              /\ arErr' = CreateErr
              /\ arRet' = CreateErr
              /\ arPc' = "returned"
    /\ UNCHANGED <<notArVars, arWritten, arWriteFailed, arFlushed>>

\* err = fo.Chmod(DefaultRootFileMode); on error return err
ArChmod(ok) ==
    /\ arPc = "chmod"
    /\ IF ok
         THEN /\ arPc' = "recv"
              /\ UNCHANGED <<arErr, arRet>>
         ELSE /\ arErr' = ChmodErr
              /\ arRet' = ChmodErr
              /\ arPc' = "defer"
    /\ UNCHANGED <<notArVars, arIsIsulad, arChunks, arTotal, arFile, arWritten,
                   arWriteFailed, arFlushed>>

\* for bytes := range fc { if _, werr := w.Write(bytes); werr != nil
\* { return err } }: a failed write returns the local err, not werr
ArWrite(ok) ==
    /\ arPc = "recv"
    /\ arChunks > 0
    /\ arChunks' = arChunks - 1
    /\ IF ok
         THEN /\ arWritten' = arWritten + 1
              /\ UNCHANGED <<arWriteFailed, arRet, arPc>>
         ELSE /\ arWriteFailed' = TRUE
              /\ arRet' = arErr
              /\ arPc' = "defer"
              /\ UNCHANGED arWritten
    /\ UNCHANGED <<notArVars, arIsIsulad, arTotal, arErr, arFile, arFlushed>>

\* fc is closed and drained: err = w.Flush(); on error return Errorf(...);
\* if not isIsulad return nil
ArFlush(ok) ==
    /\ arPc = "recv"
    /\ arChunks = 0
    /\ IF ok
         THEN /\ arFlushed' = TRUE
              /\ arPc' = IF arIsIsulad THEN "load" ELSE "defer"
              /\ UNCHANGED <<arErr, arRet>>
         ELSE /\ arErr' = FlushErr
              /\ arRet' = FlushErr
              /\ arPc' = "defer"
              /\ UNCHANGED arFlushed
    /\ UNCHANGED <<notArVars, arIsIsulad, arChunks, arTotal, arFile, arWritten,
                   arWriteFailed>>

\* isIsulad: isula load -i dest; on lerr return Errorf(...), else return nil
ArLoad(ok) ==
    /\ arPc = "load"
    /\ arRet' = IF ok THEN NoErr ELSE LoadErr
    /\ arPc' = "defer"
    /\ UNCHANGED <<notArVars, arIsIsulad, arChunks, arTotal, arErr, arFile,
                   arWritten, arWriteFailed, arFlushed>>

\* the deferred function: fo.Close(); if err != nil || isIsulad, os.Remove(dest)
\* (a failure of either is logged)
ArDefer(removeOk) ==
    /\ arPc = "defer"
    /\ arFile' = IF (arErr # NoErr \/ arIsIsulad) /\ removeOk THEN FALSE ELSE arFile
    /\ arPc' = "returned"
    /\ UNCHANGED <<notArVars, arIsIsulad, arChunks, arTotal, arErr, arWritten,
                   arWriteFailed, arFlushed, arRet>>

RecvNext ==
    \/ \E isIsulad, exists, createOk \in BOOLEAN, n \in 0..MaxChunks :
          ArCall(isIsulad, n, exists, createOk)
    \/ \E ok \in BOOLEAN : ArChmod(ok)
    \/ \E ok \in BOOLEAN : ArWrite(ok)
    \/ \E ok \in BOOLEAN : ArFlush(ok)
    \/ \E ok \in BOOLEAN : ArLoad(ok)
    \/ \E removeOk \in BOOLEAN : ArDefer(removeOk)

RecvInit == Init /\ ~hasPipe

RecvSpec == RecvInit /\ [][RecvNext]_vars

\* C36: ArchiveRecv returns a non-nil error whenever writing a chunk fails,
\* and the file at dest is then removed before it returns; it returns nil
\* only if every chunk was written and the buffer flushed.
C36_Original ==
    arPc = "returned" =>
        /\ arWriteFailed => (arRet # NoErr /\ ~arFile)
        /\ arRet = NoErr => (arWritten = arTotal /\ arFlushed)

\* ------------------------------------------------------ the waiter's send
\* C37: the send of eg.Wait()'s result on errChan never blocks and never
\* hits a closed channel: as long as the waiter has not sent, errChan is
\* empty and open, so the send can be done as soon as eg.Wait() has returned,
\* also after Build returned through the cancellation branch; the channel
\* is closed only after the waiter's value was received.
C37_WaiterSendNeverBlocks ==
    /\ wtPc = "wait" => (errChan = <<>> /\ ~errChanClosed)
    /\ (wtPc = "wait" /\ TasksReturned) => ENABLED WaiterSend
    /\ errChanClosed => (wtPc = "done" /\ errChan = <<>>)
    /\ Len(errChan) <= 1

\* Build returned through the cancellation branch, nobody receives from
\* errChan any more, and the waiter has sent its value into the buffer
C37_Witness ==
    /\ supPc = "returned"
    /\ via = "cancel"
    /\ wtPc = "done"
    /\ Len(errChan) = 1
    /\ ~errChanClosed

\* ------------------------------------------------- teardown and wait group
\* C38: a Build call for which NewBuilder succeeded has run the deferred
\* CleanResources, deleteBuilder and deleteStatus exactly once when it has
\* returned, on every return path, and not before it returns; a call for
\* which NewBuilder failed never runs them; every call has incremented b.wg
\* once on entry and has decremented it once when it has returned.
C38_TeardownOnce ==
    /\ supPc = "returned" =>
          /\ via \in {"newbuilder", "errchan", "final", "finalerr", "cancel"}
          /\ cleaned = (IF via = "newbuilder" THEN 0 ELSE 1)
          /\ wgAdds = 1
          /\ wgDones = 1
    /\ supPc # "returned" => (cleaned = 0 /\ wgDones = 0)
    /\ supPc \in {"select", "final"} => wgAdds = 1
    /\ sessionDeleted <=> (cleaned = 1)

\* Build returned through a failed final Send
C38_Witness ==
    /\ supPc = "returned"
    /\ via = "finalerr"
    /\ cleaned = 1
    /\ wgDones = 1

\* ====================================================== GetRWLayerByImageID
\* largest number of container names one call generates
MaxTries == 3
\* number of different random numbers GenerateCryptoNum may return
MaxRand == 3

RandErr == "generate random number failed"
ErrDuplicateName == "that name is already in use"
CreateContainerErr == "error creating container"
MountErr == "error mounting build container"

\* containerName = fmt.Sprintf("isula-build-%s", randNum)
ContainerNameOf(randNum) == <<"isula-build-", randNum>>

ContainerNames == {ContainerNameOf(r) : r \in 1..MaxRand}

\* GetRWLayerByImageID(imgID, store) is called
RwCall ==
    /\ rwPc = "idle"
    /\ \E cs \in SUBSET ContainerNames :
          /\ rwInitial' = cs
          /\ rwContainers' = cs
    /\ rwPc' = "gen"
    /\ UNCHANGED <<notRwVars, rwName, rwNames, rwErr, rwCreated, rwDeletes,
                   rwRollbackErr, rwRet>>

\* randNum, rerr := util.GenerateCryptoNum(...); on error return nil, rerr;
\* else containerName is built from it
RwGen(ok, r) ==
    /\ rwPc = "gen"
    /\ Len(rwNames) < MaxTries
    /\ IF ok
         THEN /\ rwName' = ContainerNameOf(r)
              /\ rwPc' = "create"
              /\ UNCHANGED rwRet
         ELSE /\ rwRet' = [NoDescribe EXCEPT !.err = RandErr]
              /\ rwPc' = "returned"
              /\ UNCHANGED rwName
    /\ UNCHANGED <<notRwVars, rwInitial, rwContainers, rwNames, rwErr, rwCreated,
                   rwDeletes, rwRollbackErr>>

\* container, err = store.CreateContainer("", []string{containerName}, ...):
\* err == nil leaves the loop; ErrDuplicateName (the store holds a container
\* of that name) starts the loop again; any other error, which the store
\* may return whether or not the name is taken, is returned wrapped
RwCreate(otherErr) ==
    /\ rwPc = "create"
    /\ rwNames' = Append(rwNames, rwName)
    /\ IF otherErr
         THEN /\ rwErr' = CreateContainerErr
              /\ rwRet' = [NoDescribe EXCEPT !.err = CreateContainerErr]
              /\ rwPc' = "returned"
              /\ UNCHANGED <<rwContainers, rwCreated>>
         ELSE IF rwName \in rwContainers
         THEN /\ rwErr' = ErrDuplicateName
              /\ rwPc' = "gen"
              /\ UNCHANGED <<rwContainers, rwCreated, rwRet>>
         ELSE /\ rwContainers' = rwContainers \cup {rwName}
              /\ rwCreated' = rwName
              /\ rwErr' = NoErr
              /\ rwPc' = "mount"
              /\ UNCHANGED rwRet
    /\ UNCHANGED <<notRwVars, rwInitial, rwName, rwDeletes, rwRollbackErr>>

\* mountpoint, err := store.Mount(container.ID, ""): on error return the
\* wrapped error (the deferred rollback runs next), else return the
\* ContainerDescribe (the deferred function finds err == nil)
RwMount(ok) ==
    /\ rwPc = "mount"
    /\ IF ok
         THEN /\ rwRet' = [ContainerName |-> rwName, Mounted |-> TRUE, err |-> NoErr]
              /\ rwPc' = "returned"
              /\ UNCHANGED rwErr
         ELSE /\ rwErr' = MountErr
              /\ rwRet' = [NoDescribe EXCEPT !.err = MountErr]
              /\ rwPc' = "rollback"
    /\ UNCHANGED <<notRwVars, rwInitial, rwContainers, rwName, rwNames, rwCreated,
                   rwDeletes, rwRollbackErr>>

RwRollback_Skips(ok) ==
    /\ rwPc = "rollback"
    /\ rwPc' = "returned"
    /\ UNCHANGED <<notRwVars, rwInitial, rwContainers, rwName, rwNames, rwErr,
                   rwCreated, rwDeletes, rwRollbackErr, rwRet>>

\* the deferred function with err != nil: store.DeleteContainer(container.ID);
\* a failure of the deletion is logged
RwRollback(ok) ==
    /\ rwPc = "rollback"
    /\ rwDeletes' = Append(rwDeletes, rwCreated)
    /\ rwRollbackErr' = ~ok
    /\ rwContainers' = IF ok THEN rwContainers \ {rwCreated} ELSE rwContainers
    /\ rwPc' = "returned"
    /\ UNCHANGED <<notRwVars, rwInitial, rwName, rwNames, rwErr, rwCreated, rwRet>>

RwNext ==
    \/ RwCall
    \/ \E ok \in BOOLEAN, r \in 1..MaxRand : RwGen(ok, r)
    \/ \E otherErr \in BOOLEAN : RwCreate(otherErr)
    \/ \E ok \in BOOLEAN : RwMount(ok)
    \/ \E ok \in BOOLEAN : RwRollback(ok)

RwInit == Init /\ ~hasPipe

RwSpec == RwInit /\ [][RwNext]_vars

\* the call created a container and Mount failed
MountFailed == rwRet.err = MountErr

\* creation is retried while it fails with a duplicate name, and any other
\* failure of creation or of the random number returns at once
RetriesOnDuplicate ==
    /\ rwPc \in {"mount", "rollback", "returned"} /\ rwRet.err \notin {RandErr} =>
          /\ rwNames # <<>>
          /\ \A k \in 1..(Len(rwNames) - 1) : rwNames[k] \in rwInitial
    /\ rwRet.err = CreateContainerErr =>
          (rwPc = "returned" /\ rwNames # <<>> /\ rwCreated = <<>>
           /\ rwErr = CreateContainerErr /\ rwContainers = rwInitial)
    /\ rwRet.err = RandErr =>
          (rwPc = "returned" /\ rwCreated = <<>>
           /\ \A k \in 1..Len(rwNames) : rwNames[k] \in rwInitial)
    /\ rwCreated # <<>> => rwCreated = rwNames[Len(rwNames)] /\ rwCreated \notin rwInitial

\* C39 as stated: creation is retried with a new name while it fails with a
\* duplicate name, other failures return at once, and after a failed mount
\* the created container is deleted, so that a failed call leaves no
\* container behind.
C39_Original ==
    /\ RetriesOnDuplicate
    /\ (rwPc = "returned" /\ rwRet.err # NoErr) => rwContainers = rwInitial

\* C39: creation is retried with a new name while it fails with a duplicate
\* name, other failures return at once, and after a failed mount
\* DeleteContainer is called once, for the created container, before the
\* error is returned; a failed call leaves no container behind unless that
\* deletion fails, in which case the created container stays.
C39_RollbackAttempted ==
    /\ RetriesOnDuplicate
    /\ (rwPc = "returned" /\ MountFailed) => rwDeletes = <<rwCreated>>
    /\ ~MountFailed => rwDeletes = <<>>
    /\ (rwPc = "returned" /\ rwRet.err # NoErr) =>
          rwContainers = (IF rwRollbackErr THEN rwInitial \cup {rwCreated}
                                           ELSE rwInitial)
    /\ (rwPc = "returned" /\ rwRet.err = NoErr) =>
          (rwRet.ContainerName = rwCreated /\ rwContainers = rwInitial \cup {rwCreated})

\* the first name was taken, the second was free, the mount failed and the
\* rollback deleted the container
C39_Witness ==
    /\ rwPc = "returned"
    /\ Len(rwNames) = 2
    /\ MountFailed
    /\ rwDeletes = <<rwCreated>>
    /\ rwContainers = rwInitial

====
